---- MODULE Spec2Model ----
(***************************************************************************)
(* A model of the BNS v2 read API (Strata-Labs/bnsv2-api).                 *)
(*                                                                         *)
(* Spec      : the name-lifecycle handlers (getNameRenewal, canResolve,    *)
(*             getNameOwner, getNameDetails, getTokenOwner, resolveName)   *)
(*             over one name row, its namespace row and the burn-block     *)
(*             height the oracle returns.                                  *)
(* FetchSpec : fetchExternalSubdomains, one call from its cache lookup to  *)
(*             the promise settling, and getSubdomains answering with it.  *)
(* FetchLiveSpec : FetchSpec with the timer and the call's own steps fair. *)
(* DecodeSpec : decodeZonefile (zonefile-utils.js and server.js) on hex    *)
(*             blobs.                                                      *)
(* ValidateSpec : the zonefile validators and the external-file schema on  *)
(*             decoded documents.                                          *)
(* OracleSpec : getCurrentBurnBlockHeight with its cache entries and the   *)
(*             upstream answers.                                           *)
(* OracleRaceSpec : concurrent calls of getCurrentBurnBlockHeight against  *)
(*             an upstream whose chain grows.                              *)
(* RaritySpec : getNameRarity on names and namespace counts.               *)
(* ListSpec  : the list handlers (valid, expired, revoked, expiring by     *)
(*             address) with their cached responses and totals.            *)
(* ServerSpec : the onRequest hooks of setupCaching in front of the routes, *)
(*             and /health.                                                *)
(***************************************************************************)
EXTENDS Integers, Sequences, FiniteSets, TLC

VARIABLES
    nameRow,      \* the row of <schema>.names the request is about
    nsRow,        \* the row of <schema>.namespaces of that name
    height,       \* what getCurrentBurnBlockHeight(network) returns now
    cache,        \* the TTL cache: key -> <<>> (no entry) or <<value>>
    pending,      \* <<>> or <<r>>: a handler suspended between its two height
                  \* reads, or the request the server's hooks are running for
    reply,        \* the last response sent: [handler, code, body], and at: the
                  \* oracle height at each of the handler's one or two reads
    url,          \* fetchExternalSubdomains: its urlString argument
    fetchPc,      \* fetchExternalSubdomains: where the call is
    netLog,       \* the requests the call issued so far, in order
    headResponse, \* <<>> or <<r>>: the HEAD response
    timerArmed,   \* the FETCH_TIMEOUT timer is set and not cleared
    totalSize,    \* bytes counted by the body stream's data handler
    chunks,       \* the lengths of the chunks the data handler kept
    outcome,      \* how the call settled: [kind, message]
    zonefileHex,  \* decodeZonefile: its argument, a string as its characters
    decoded,      \* <<>> or <<r>>: what decodeZonefile returned, and which one
    document,     \* isValidZonefileFormat: the decoded zonefile it is given
    verdict,      \* per validator, <<>> or <<b>>: what it returned for document
    oraclePc,     \* getCurrentBurnBlockHeight: where the call is
    oracleNetwork,    \* getCurrentBurnBlockHeight: its network argument
    upstreamRequests, \* the upstream requests the call issued so far, each
                      \* with its answer once it has one
    oracleResult, \* what the call returned or threw
    namespaceStats,   \* getNameRarity: the counts its queries find in the
                      \* namespace of the name
    responseHeaders,  \* the headers set on the response being built
    poolHealth    \* <<>> or <<r>>: what the last checkPoolHealth returned

lifecycleVars == <<nameRow, nsRow, height, pending, reply>>
fetchVars == <<url, fetchPc, netLog, headResponse, timerArmed, totalSize, chunks, outcome>>
zonefileVars == <<zonefileHex, decoded, document, verdict>>
oracleVars == <<oraclePc, oracleNetwork, upstreamRequests, oracleResult>>
serviceVars == <<namespaceStats, responseHeaders, poolHealth>>
vars == <<nameRow, nsRow, height, cache, pending, reply, fetchVars,
          zonefileVars, oracleVars, serviceVars>>

(***************************************************************************)
(* Bounds of the model.                                                    *)
(***************************************************************************)
BaseHeight == 10000
LaunchHeight == 20000
Lifetime == 52595
ImportHeight == 19000

(***************************************************************************)
(* Values.                                                                 *)
(***************************************************************************)
\* SQL NULL in an integer column (launched_at, imported_at).
NullInt == 0 - 1
\* SQL NULL in a text column (namespace_manager).
NullText == "<null>"

\* JavaScript truthiness of a nullable integer: null and 0 are falsy.
Truthy(x) == x # NullInt /\ x # 0

\* part_005:831, part_005:931, handlers/index.js:145, query-utils.js:109
gracePeriod == 5000
\* part_005:840, handlers/index.js:152, query-utils.js:113
expiringSoonWindow == 4320

NameRows ==
    [revoked : BOOLEAN,
     renewal_height : {0, BaseHeight},
     imported_at : {NullInt, ImportHeight},
     owner : {"SP1OWNER"}]

NamespaceRows ==
    [launched_at : {NullInt, LaunchHeight},
     lifetime : {0, Lifetime},
     namespace_manager : {NullText, "none", "SP2MANAGER"}]

\* Heights on both sides of every boundary of every renewal height in play.
Offsets ==
    {0 - (expiringSoonWindow + 1), 0 - expiringSoonWindow, 1 - expiringSoonWindow,
     0, 1, gracePeriod, gracePeriod + 1}

Heights ==
    {r + d : r \in {BaseHeight, LaunchHeight + Lifetime}, d \in Offsets}

NoReply == [handler |-> "none", code |-> 0, body |-> [error |-> "none"], at |-> <<>>]

(***************************************************************************)
(* query-utils.js                                                          *)
(***************************************************************************)
getNameStatus_SoonInclusive(nameInfo, currentBurnBlock) ==
    IF nameInfo.revoked THEN "revoked"
    ELSE IF nameInfo.renewal_height = 0 THEN "active"
    ELSE LET renewalHeight == nameInfo.renewal_height IN
         IF currentBurnBlock > renewalHeight + gracePeriod THEN "expired"
         ELSE IF currentBurnBlock > renewalHeight THEN "grace-period"
         ELSE IF currentBurnBlock >= renewalHeight - expiringSoonWindow THEN "expiring-soon"
         ELSE "active"

\* getNameStatus(nameInfo, network); currentBurnBlock is what its own call of
\* getCurrentBurnBlockHeight returns.
getNameStatus(nameInfo, currentBurnBlock) ==
    IF nameInfo.revoked THEN "revoked"
    ELSE IF nameInfo.renewal_height = 0 THEN "active"
    ELSE LET renewalHeight == nameInfo.renewal_height IN
         IF currentBurnBlock > renewalHeight + gracePeriod THEN "expired"
         ELSE IF currentBurnBlock > renewalHeight THEN "grace-period"
         ELSE IF currentBurnBlock > renewalHeight - expiringSoonWindow THEN "expiring-soon"
         ELSE "active"

(***************************************************************************)
(* handlers/name-handlers.js                                               *)
(***************************************************************************)
IsManaged(namespace_manager) ==
    namespace_manager # "none" /\ namespace_manager # NullText

getNameRenewalBody_NoManagedBranch(nameData, ns, currentBurnBlock) ==
    LET isManaged == IsManaged(ns.namespace_manager)
        renewalHeight == nameData.renewal_height
        expirationBlock == renewalHeight + gracePeriod
    IN  IF nameData.revoked THEN
            [current_burn_block |-> currentBurnBlock, renewal_height |-> 0,
             blocks_until_expiry |-> 0, status |-> "revoked",
             needs_renewal |-> FALSE, is_managed |-> isManaged]
        ELSE IF ns.lifetime = 0 THEN
            [current_burn_block |-> currentBurnBlock, renewal_height |-> 0,
             blocks_until_expiry |-> 0, status |-> "active",
             needs_renewal |-> FALSE, is_managed |-> FALSE]
        ELSE
            [current_burn_block |-> currentBurnBlock,
             renewal_height |-> renewalHeight,
             blocks_until_expiry |->
                 IF renewalHeight > currentBurnBlock
                 THEN renewalHeight - currentBurnBlock ELSE 0,
             status |->
                 IF renewalHeight = 0 THEN "active"
                 ELSE IF currentBurnBlock > expirationBlock THEN "expired"
                 ELSE IF currentBurnBlock > renewalHeight THEN "grace-period"
                 ELSE IF currentBurnBlock > renewalHeight - expiringSoonWindow
                      THEN "expiring-soon"
                 ELSE "active",
             needs_renewal |->
                 /\ renewalHeight # 0
                 /\ currentBurnBlock <= expirationBlock
                 /\ currentBurnBlock > renewalHeight - expiringSoonWindow,
             is_managed |-> isManaged]

getNameRenewalBody_ManagedFirst(nameData, ns, currentBurnBlock) ==
    LET isManaged == IsManaged(ns.namespace_manager)
        renewalHeight == nameData.renewal_height
        expirationBlock == renewalHeight + gracePeriod
    IN  IF isManaged THEN
            [current_burn_block |-> currentBurnBlock, renewal_height |-> 0,
             blocks_until_expiry |-> 0, status |-> "active",
             needs_renewal |-> FALSE, is_managed |-> TRUE]
        ELSE IF nameData.revoked THEN
            [current_burn_block |-> currentBurnBlock, renewal_height |-> 0,
             blocks_until_expiry |-> 0, status |-> "revoked",
             needs_renewal |-> FALSE, is_managed |-> isManaged]
        ELSE IF ns.lifetime = 0 THEN
            [current_burn_block |-> currentBurnBlock, renewal_height |-> 0,
             blocks_until_expiry |-> 0, status |-> "active",
             needs_renewal |-> FALSE, is_managed |-> FALSE]
        ELSE
            [current_burn_block |-> currentBurnBlock,
             renewal_height |-> renewalHeight,
             blocks_until_expiry |->
                 IF renewalHeight > currentBurnBlock
                 THEN renewalHeight - currentBurnBlock ELSE 0,
             status |->
                 IF renewalHeight = 0 THEN "active"
                 ELSE IF currentBurnBlock > expirationBlock THEN "expired"
                 ELSE IF currentBurnBlock > renewalHeight THEN "grace-period"
                 ELSE IF currentBurnBlock > renewalHeight - expiringSoonWindow
                      THEN "expiring-soon"
                 ELSE "active",
             needs_renewal |->
                 /\ renewalHeight # 0
                 /\ currentBurnBlock <= expirationBlock
                 /\ currentBurnBlock > renewalHeight - expiringSoonWindow,
             is_managed |-> FALSE]

\* The body getNameRenewal sends once both rows are found (status 200).
getNameRenewalBody(nameData, ns, currentBurnBlock) ==
    LET isManaged == IsManaged(ns.namespace_manager)
        renewalHeight == nameData.renewal_height
        expirationBlock == renewalHeight + gracePeriod
    IN  IF nameData.revoked THEN
            [current_burn_block |-> currentBurnBlock, renewal_height |-> 0,
             blocks_until_expiry |-> 0, status |-> "revoked",
             needs_renewal |-> FALSE, is_managed |-> isManaged]
        ELSE IF isManaged THEN
            [current_burn_block |-> currentBurnBlock, renewal_height |-> 0,
             blocks_until_expiry |-> 0, status |-> "active",
             needs_renewal |-> FALSE, is_managed |-> TRUE]
        ELSE IF ns.lifetime = 0 THEN
            [current_burn_block |-> currentBurnBlock, renewal_height |-> 0,
             blocks_until_expiry |-> 0, status |-> "active",
             needs_renewal |-> FALSE, is_managed |-> FALSE]
        ELSE
            [current_burn_block |-> currentBurnBlock,
             renewal_height |-> renewalHeight,
             blocks_until_expiry |->
                 IF renewalHeight > currentBurnBlock
                 THEN renewalHeight - currentBurnBlock ELSE 0,
             status |->
                 IF renewalHeight = 0 THEN "active"
                 ELSE IF currentBurnBlock > expirationBlock THEN "expired"
                 ELSE IF currentBurnBlock > renewalHeight THEN "grace-period"
                 ELSE IF currentBurnBlock > renewalHeight - expiringSoonWindow
                      THEN "expiring-soon"
                 ELSE "active",
             needs_renewal |->
                 /\ renewalHeight # 0
                 /\ currentBurnBlock <= expirationBlock
                 /\ currentBurnBlock > renewalHeight - expiringSoonWindow,
             is_managed |-> FALSE]

canResolveResponse_RevokedFirst(nameData, ns, currentBurnBlock) ==
    LET stored == nameData.renewal_height
        renewalHeight ==
            IF stored = 0 /\ Truthy(nameData.imported_at)
            THEN ns.launched_at + ns.lifetime ELSE stored
        isWithinValidPeriod ==
            renewalHeight = 0 \/ currentBurnBlock <= renewalHeight + gracePeriod
    IN  IF nameData.revoked THEN
            [code |-> 200,
             body |-> [can_resolve |-> FALSE, error |-> "Name is revoked",
                       current_burn_block |-> currentBurnBlock]]
        ELSE IF ~Truthy(ns.launched_at) THEN
            [code |-> 400,
             body |-> [can_resolve |-> FALSE, error |-> "Namespace not launched"]]
        ELSE IF ns.lifetime = 0 THEN
            [code |-> 200,
             body |-> [can_resolve |-> TRUE, renewal_height |-> 0,
                       owner |-> nameData.owner,
                       current_burn_block |-> currentBurnBlock]]
        ELSE IF isWithinValidPeriod THEN
            [code |-> 200,
             body |-> [can_resolve |-> TRUE, renewal_height |-> renewalHeight,
                       owner |-> nameData.owner,
                       current_burn_block |-> currentBurnBlock]]
        ELSE
            [code |-> 200,
             body |-> [can_resolve |-> FALSE, renewal_height |-> renewalHeight,
                       owner |-> nameData.owner,
                       current_burn_block |-> currentBurnBlock,
                       error |-> "Name expired"]]

\* The status code and body canResolve sends once both rows are found.
canResolveResponse(nameData, ns, currentBurnBlock) ==
    LET stored == nameData.renewal_height
        renewalHeight ==
            IF stored = 0 /\ Truthy(nameData.imported_at)
            THEN ns.launched_at + ns.lifetime ELSE stored
        isWithinValidPeriod ==
            renewalHeight = 0 \/ currentBurnBlock <= renewalHeight + gracePeriod
    IN  IF ~Truthy(ns.launched_at) THEN
            [code |-> 400,
             body |-> [can_resolve |-> FALSE, error |-> "Namespace not launched"]]
        ELSE IF nameData.revoked THEN
            [code |-> 200,
             body |-> [can_resolve |-> FALSE, error |-> "Name is revoked",
                       current_burn_block |-> currentBurnBlock]]
        ELSE IF ns.lifetime = 0 THEN
            [code |-> 200,
             body |-> [can_resolve |-> TRUE, renewal_height |-> 0,
                       owner |-> nameData.owner,
                       current_burn_block |-> currentBurnBlock]]
        ELSE IF isWithinValidPeriod THEN
            [code |-> 200,
             body |-> [can_resolve |-> TRUE, renewal_height |-> renewalHeight,
                       owner |-> nameData.owner,
                       current_burn_block |-> currentBurnBlock]]
        ELSE
            [code |-> 200,
             body |-> [can_resolve |-> FALSE, renewal_height |-> renewalHeight,
                       owner |-> nameData.owner,
                       current_burn_block |-> currentBurnBlock,
                       error |-> "Name expired"]]

\* The body canNameBeRegistered sends (status 200) once the namespace row and
\* the name row are found; the namespace query selects launched_at and
\* namespace_manager only.
canNameBeRegisteredBody(nameData, namespaceData, currentBurnBlock) ==
    IF ~Truthy(namespaceData.launched_at) THEN
        [can_register |-> FALSE, reason |-> "NAMESPACE_NOT_LAUNCHED"]
    ELSE IF Truthy(nameData.imported_at) THEN
        [can_register |-> FALSE, reason |-> "NAME_IMPORTED",
         current_owner |-> nameData.owner]
    ELSE IF /\ namespaceData.namespace_manager = NullText
            /\ nameData.renewal_height > 0
            /\ nameData.renewal_height <= currentBurnBlock THEN
        [can_register |-> TRUE, reason |-> "NAME_EXPIRED",
         previous_owner |-> nameData.owner,
         expired_at |-> nameData.renewal_height]
    ELSE
        [can_register |-> FALSE, reason |-> "NAME_TAKEN",
         current_owner |-> nameData.owner]

\* The status code and body getNameOwner sends once both rows are found;
\* statusBurnBlock is the height getNameStatus reads for itself.
getNameOwnerResponse(nameInfo, namespaceInfo, currentBurnBlock, statusBurnBlock) ==
    IF ~Truthy(namespaceInfo.launched_at) THEN
        [code |-> 400, body |-> [error |-> "Namespace not launched"]]
    ELSE
        [code |-> 200,
         body |-> [owner |-> nameInfo.owner,
                   current_burn_block |-> currentBurnBlock,
                   renewal_height |-> nameInfo.renewal_height,
                   status |-> getNameStatus(nameInfo, statusBurnBlock)]]

\* The body getNameDetails sends once both rows are found (status 200).
getNameDetailsBody(nameData, ns, currentBurnBlock, statusBurnBlock) ==
    LET isManaged == IsManaged(ns.namespace_manager)
        status ==
            IF nameData.revoked THEN "revoked"
            ELSE IF isManaged THEN "active"
            ELSE getNameStatus(nameData, statusBurnBlock)
        isValid ==
            /\ ~nameData.revoked
            /\ (isManaged \/ status = "active" \/ status = "expiring-soon")
    IN  [current_burn_block |-> currentBurnBlock,
         status |-> status,
         is_managed |-> isManaged,
         data |-> [renewal_height |-> nameData.renewal_height,
                   revoked |-> nameData.revoked,
                   owner |-> nameData.owner,
                   is_valid |-> isValid]]

\* The WHERE clause of resolveName's query (owner is never NULL in the rows
\* modelled): the row is selected.
resolveNameSelects(row, currentBurnBlock) ==
    /\ row.revoked = FALSE
    /\ (row.renewal_height = 0 \/ row.renewal_height > currentBurnBlock)

\* What getAndValidateZonefile can return for the selected row's zonefile.
ZonefileResults ==
    {[success |-> TRUE, code |-> 200, error |-> "none"],
     [success |-> FALSE, code |-> 404, error |-> "No zonefile found or unable to decode"],
     [success |-> FALSE, code |-> 400, error |-> "Invalid zonefile format"],
     [success |-> FALSE, code |-> 400,
      error |-> "Zonefile needs to be updated (owner mismatch)"]}

resolveNameResponse(row, currentBurnBlock, zonefileResult) ==
    IF ~resolveNameSelects(row, currentBurnBlock) THEN
        [code |-> 404, body |-> [error |-> "Name not found, expired or revoked"]]
    ELSE IF ~zonefileResult.success THEN
        [code |-> zonefileResult.code, body |-> [error |-> zonefileResult.error]]
    ELSE
        [code |-> 200, body |-> [zonefile |-> "decoded"]]

(***************************************************************************)
(* handlers/token-handlers.js                                              *)
(***************************************************************************)
\* The status code and body getTokenOwner computes on a cache miss once both
\* rows are found.
getTokenOwnerResponse(nameData, namespaceInfo, currentBurnBlock) ==
    LET lifetime == namespaceInfo.lifetime
        launched_at == namespaceInfo.launched_at
        stored == nameData.renewal_height
        renewalHeight ==
            IF stored = 0 /\ Truthy(nameData.imported_at) /\ lifetime # 0
            THEN launched_at + lifetime ELSE stored
        isWithinValidPeriod ==
            renewalHeight = 0 \/ currentBurnBlock <= renewalHeight + gracePeriod
    IN  IF ~Truthy(launched_at) THEN
            [code |-> 400, body |-> [error |-> "Namespace not launched"]]
        ELSE IF nameData.revoked THEN
            [code |-> 200,
             body |-> [owner |-> nameData.owner,
                       current_burn_block |-> currentBurnBlock,
                       status |-> "revoked"]]
        ELSE IF lifetime = 0 THEN
            [code |-> 200,
             body |-> [owner |-> nameData.owner,
                       current_burn_block |-> currentBurnBlock,
                       status |-> "active"]]
        ELSE
            [code |-> 200,
             body |-> [owner |-> nameData.owner,
                       current_burn_block |-> currentBurnBlock,
                       renewal_height |-> renewalHeight,
                       status |->
                           IF ~isWithinValidPeriod THEN "expired"
                           ELSE IF currentBurnBlock > renewalHeight THEN "grace-period"
                           ELSE IF currentBurnBlock > renewalHeight - expiringSoonWindow
                                THEN "expiring-soon"
                           ELSE "active"]]

(***************************************************************************)
(* The lifecycle handlers as actions.                                      *)
(***************************************************************************)
Idle == pending = <<>>

Send(handler, response, at) ==
    reply' = [handler |-> handler, code |-> response.code, body |-> response.body,
              at |-> at]

\* The chain grows and the cached height is refetched after its entry expired:
\* getCurrentBurnBlockHeight returns a greater height from now on.
BurnBlockAdvance ==
    /\ \E h \in Heights : h > height /\ height' = h
    /\ UNCHANGED <<nameRow, nsRow, cache, pending, reply>>
    /\ UNCHANGED <<fetchVars, zonefileVars, oracleVars, serviceVars>>

\* A handler whose first call of getCurrentBurnBlockHeight throws (upstream
\* non-2xx): createNetworkHandler answers 500.
OracleFailure ==
    /\ Idle
    /\ \E handler \in {"getNameRenewal", "canNameBeRegistered", "canResolve",
                       "getNameOwner",
                       "getNameDetails", "getTokenOwner", "resolveName"} :
          /\ handler = "getTokenOwner" => cache.token_owner = <<>>
          /\ Send(handler, [code |-> 500, body |-> [error |-> "Internal Server Error"]],
                  <<>>)
    /\ UNCHANGED <<nameRow, nsRow, height, cache, pending>>
    /\ UNCHANGED <<fetchVars, zonefileVars, oracleVars, serviceVars>>

getNameRenewal ==
    /\ Idle
    /\ Send("getNameRenewal",
            [code |-> 200, body |-> getNameRenewalBody(nameRow, nsRow, height)],
            <<height>>)
    /\ UNCHANGED <<nameRow, nsRow, height, cache, pending>>
    /\ UNCHANGED <<fetchVars, zonefileVars, oracleVars, serviceVars>>

canNameBeRegistered ==
    /\ Idle
    /\ Send("canNameBeRegistered",
            [code |-> 200, body |-> canNameBeRegisteredBody(nameRow, nsRow, height)],
            <<height>>)
    /\ UNCHANGED <<nameRow, nsRow, height, cache, pending>>
    /\ UNCHANGED <<fetchVars, zonefileVars, oracleVars, serviceVars>>

canResolve ==
    /\ Idle
    /\ Send("canResolve", canResolveResponse(nameRow, nsRow, height), <<height>>)
    /\ UNCHANGED <<nameRow, nsRow, height, cache, pending>>
    /\ UNCHANGED <<fetchVars, zonefileVars, oracleVars, serviceVars>>

resolveName ==
    /\ Idle
    /\ \E zonefileResult \in ZonefileResults :
          Send("resolveName", resolveNameResponse(nameRow, height, zonefileResult),
               <<height>>)
    /\ UNCHANGED <<nameRow, nsRow, height, cache, pending>>
    /\ UNCHANGED <<fetchVars, zonefileVars, oracleVars, serviceVars>>

\* getNameOwner up to its await of getNameStatus: currentBurnBlock is read.
getNameOwnerBegin ==
    /\ Idle
    /\ pending' = <<[handler |-> "getNameOwner", currentBurnBlock |-> height]>>
    /\ reply' = NoReply
    /\ UNCHANGED <<nameRow, nsRow, height, cache>>
    /\ UNCHANGED <<fetchVars, zonefileVars, oracleVars, serviceVars>>

\* getNameOwner from getNameStatus on; a namespace that is not launched is
\* answered without calling getNameStatus.
getNameOwnerFinish ==
    /\ pending # <<>>
    /\ pending[1].handler = "getNameOwner"
    /\ Send("getNameOwner",
            getNameOwnerResponse(nameRow, nsRow, pending[1].currentBurnBlock, height),
            IF Truthy(nsRow.launched_at)
            THEN <<pending[1].currentBurnBlock, height>>
            ELSE <<pending[1].currentBurnBlock>>)
    /\ pending' = <<>>
    /\ UNCHANGED <<nameRow, nsRow, height, cache>>
    /\ UNCHANGED <<fetchVars, zonefileVars, oracleVars, serviceVars>>

\* getNameDetails up to its await of getNameStatus.
getNameDetailsBegin ==
    /\ Idle
    /\ pending' = <<[handler |-> "getNameDetails", currentBurnBlock |-> height]>>
    /\ reply' = NoReply
    /\ UNCHANGED <<nameRow, nsRow, height, cache>>
    /\ UNCHANGED <<fetchVars, zonefileVars, oracleVars, serviceVars>>

\* getNameDetails from its status computation on; getNameStatus runs only
\* for a name that is neither revoked nor in a managed namespace.
getNameDetailsFinish ==
    /\ pending # <<>>
    /\ pending[1].handler = "getNameDetails"
    /\ Send("getNameDetails",
            [code |-> 200,
             body |-> getNameDetailsBody(nameRow, nsRow,
                                         pending[1].currentBurnBlock, height)],
            IF ~nameRow.revoked /\ ~IsManaged(nsRow.namespace_manager)
            THEN <<pending[1].currentBurnBlock, height>>
            ELSE <<pending[1].currentBurnBlock>>)
    /\ pending' = <<>>
    /\ UNCHANGED <<nameRow, nsRow, height, cache>>
    /\ UNCHANGED <<fetchVars, zonefileVars, oracleVars, serviceVars>>

\* getTokenOwner: a cached response is sent as it is; a computed one is cached
\* unless it is the 400 of a namespace that is not launched.
getTokenOwner ==
    /\ Idle
    /\ IF cache.token_owner # <<>>
       THEN /\ Send("getTokenOwner", [code |-> 200, body |-> cache.token_owner[1]], <<>>)
            /\ UNCHANGED cache
       ELSE LET response == getTokenOwnerResponse(nameRow, nsRow, height) IN
            /\ Send("getTokenOwner", response, <<height>>)
            /\ cache' = IF response.code = 200
                        THEN [cache EXCEPT !.token_owner = <<response.body>>]
                        ELSE cache
    /\ UNCHANGED <<nameRow, nsRow, height, pending>>
    /\ UNCHANGED <<fetchVars, zonefileVars, oracleVars, serviceVars>>

\* The TTL of a cache entry runs out.
CacheExpire ==
    /\ \E key \in DOMAIN cache :
          /\ cache[key] # <<>>
          /\ cache' = [cache EXCEPT ![key] = <<>>]
    /\ UNCHANGED lifecycleVars
    /\ UNCHANGED <<fetchVars, zonefileVars, oracleVars, serviceVars>>

\* Heights around the renewal height of the listed name: the first block of
\* the expiring window as each handler draws it, and the expiry block.
ListHeights ==
    {BaseHeight - expiringSoonWindow, BaseHeight - expiringSoonWindow + 1, BaseHeight}

\* `valid_names_count_${network}_${currentBurnBlock}` and its like for mainnet.
countCacheKey(list, currentBurnBlock) ==
    list \o "_names_count_mainnet_" \o ToString(currentBurnBlock)

\* The keys of the list handlers, for mainnet, the default limit and offset
\* and the address of the owner.
ListCacheKeys ==
    {"valid_names", "expired_names", "revoked_names", "expiring_names_by_address",
     "revoked_names_count_mainnet"}
    \cup {countCacheKey(list, h) : list \in {"valid", "expired"}, h \in ListHeights}

\* Request urls: the routes setupCaching names, one other route of
\* registerRoutes, and /health.
Urls ==
    {"/namespaces", "/namespaces/:namespace", "/names", "/names/valid",
     "/names/expired", "/names/revoked", "/names/namespace/:namespace",
     "/names/:full_name", "/health"}

\* `etag_${request.url}_${JSON.stringify(request.query)}` without a query.
etagCacheKey(requestUrl) == "etag_" \o requestUrl \o "_{}"

EmptyCache ==
    [token_owner |-> <<>>, external_subdomain_file |-> <<>>, subdomains |-> <<>>,
     mainnet_burn_block_height |-> <<>>, testnet_burn_block_height |-> <<>>]
    @@ [key \in ListCacheKeys \cup {etagCacheKey(u) : u \in Urls} |-> <<>>]

FetchIdle ==
    /\ url = [wellFormed |-> FALSE]
    /\ fetchPc = "idle"
    /\ netLog = <<>>
    /\ headResponse = <<>>
    /\ timerArmed = FALSE
    /\ totalSize = 0
    /\ chunks = <<>>
    /\ outcome = [kind |-> "pending"]

ZonefileIdle ==
    /\ zonefileHex = <<>>
    /\ decoded = <<>>
    /\ document = [t |-> "undefined"]
    /\ verdict = [utils |-> <<>>, server |-> <<>>, external |-> <<>>]

OracleIdle ==
    /\ oraclePc = "idle"
    /\ oracleNetwork = "mainnet"
    /\ upstreamRequests = <<>>
    /\ oracleResult = [kind |-> "none"]

NoStats ==
    [total |-> 0, same_length_count |-> 0, numeric_only_count |-> 0,
     letter_only_count |-> 0, special_char_count |-> 0]

NoHeaders == [CacheControl |-> <<>>, ETag |-> <<>>]

ServiceIdle ==
    /\ namespaceStats = NoStats
    /\ responseHeaders = NoHeaders
    /\ poolHealth = <<>>

Init ==
    /\ nameRow \in NameRows
    /\ nsRow \in NamespaceRows
    /\ height \in Heights
    /\ cache = EmptyCache
    /\ pending = <<>>
    /\ reply = NoReply
    /\ FetchIdle
    /\ ZonefileIdle
    /\ OracleIdle
    /\ ServiceIdle

Next ==
    \/ BurnBlockAdvance
    \/ OracleFailure
    \/ getNameRenewal
    \/ canNameBeRegistered
    \/ canResolve
    \/ resolveName
    \/ getNameOwnerBegin
    \/ getNameOwnerFinish
    \/ getNameDetailsBegin
    \/ getNameDetailsFinish
    \/ getTokenOwner
    \/ CacheExpire

Spec == Init /\ [][Next]_vars

(***************************************************************************)
(* handlers/subdomain-handlers.js: fetchExternalSubdomains                 *)
(***************************************************************************)
MAX_SIZE == 50 * 1024 * 1024

\* Bounds of the model: the data events of one body stream.
MaxChunks == 2

\* A urlString as its written components; [wellFormed |-> FALSE] is a string
\* new URL() throws on.  host is the list of dot-separated labels, path a
\* stem and its extension, query and fragment <<>> when the "?" or "#" is
\* absent and <<text>> (text possibly empty) when it is written.
UrlStrings ==
    {[wellFormed |-> FALSE]} \cup
    [wellFormed : {TRUE},
     scheme : {"https", "HTTPS", "http"},
     username : {"", "user"},
     password : {"", "pw"},
     host : {<<"evil", "com">>,
             <<"localhost">>,
             <<"127", "0", "0", "1">>,
             <<"bucket", "s3", "amazonaws", "com">>,
             <<"bucket", "s3-us-west-2", "amazonaws", "com">>,
             <<"s3", "amazonaws", "com">>,
             <<"bucket", "s3", "amazonaws", "com", "evil", "com">>},
     path : [stem : {"/x"}, ext : {".json", ".JSON", ".txt"}],
     query : {<<>>, <<"">>, <<"x=1">>},
     fragment : {<<>>, <<"frag">>}]

\* String.prototype.toLowerCase and the URL parser's lower-casing of the
\* scheme, on the strings of the model.
toLowerCase(str) ==
    CASE str = "HTTPS" -> "https"
      [] str = ".JSON" -> ".json"
      [] OTHER -> str

\* new URL(urlString) for a well-formed urlString: search and hash are empty
\* when the component is absent or written empty.
URL(urlString) ==
    [protocol |-> toLowerCase(urlString.scheme) \o ":",
     username |-> urlString.username,
     password |-> urlString.password,
     hostname |-> urlString.host,
     pathname |-> urlString.path,
     search |-> IF urlString.query \in {<<>>, <<"">>}
                THEN "" ELSE "?" \o urlString.query[1],
     hash |-> IF urlString.fragment \in {<<>>, <<"">>}
              THEN "" ELSE "#" \o urlString.fragment[1]]

isValidHttpsUrl(urlString) ==
    urlString.wellFormed /\ URL(urlString).protocol = "https:"

hasJsonExtension(urlString) ==
    toLowerCase(URL(urlString).pathname.ext) = ".json"

hasNoQueryOrFragment(urlString) ==
    URL(urlString).search = "" /\ URL(urlString).hash = ""

\* forbiddenPatterns: /^localhost$/ and /^127\.0\.0\.1$/
isSafeDomain(urlString) ==
    URL(urlString).hostname \notin {<<"localhost">>, <<"127", "0", "0", "1">>}

noUserInfo(urlString) ==
    URL(urlString).username = "" /\ URL(urlString).password = ""

\* A label matching s3(-[a-z0-9-]+)*, among the labels of the model.
IsS3Label(label) == label \in {"s3", "s3-us-west-2"}

\* s3DomainPattern /^[a-z0-9.-]+\.s3([.-][a-z0-9-]+)*\.amazonaws\.com$/i on
\* the labels: something before an s3 label, then any labels, then
\* amazonaws.com at the end.
isAllowedS3Domain(urlString) ==
    /\ urlString.wellFormed
    /\ LET hostname == URL(urlString).hostname
           n == Len(hostname)
       IN  /\ n >= 4
           /\ hostname[n] = "com"
           /\ hostname[n - 1] = "amazonaws"
           /\ \E i \in 2..(n - 2) : IsS3Label(hostname[i])

urlRejection_AllowListBeforeQuery(urlString) ==
    IF ~isValidHttpsUrl(urlString) THEN "External URL must be HTTPS"
    ELSE IF ~hasJsonExtension(urlString) THEN "External file must end with .json"
    ELSE IF ~isSafeDomain(urlString) THEN "External URL domain is not safe"
    ELSE IF ~isAllowedS3Domain(urlString)
         THEN "External URL must be an allowed S3 domain"
    ELSE IF ~hasNoQueryOrFragment(urlString)
         THEN "External URL must not have query or fragment"
    ELSE IF ~noUserInfo(urlString) THEN "External URL must not contain user info"
    ELSE "none"

\* The six checks of fetchExternalSubdomains: the message of the Error
\* thrown, "none" when the URL passes.
urlRejection(urlString) ==
    IF ~isValidHttpsUrl(urlString) THEN "External URL must be HTTPS"
    ELSE IF ~hasJsonExtension(urlString) THEN "External file must end with .json"
    ELSE IF ~isSafeDomain(urlString) THEN "External URL domain is not safe"
    ELSE IF ~hasNoQueryOrFragment(urlString)
         THEN "External URL must not have query or fragment"
    ELSE IF ~noUserInfo(urlString) THEN "External URL must not contain user info"
    ELSE IF ~isAllowedS3Domain(urlString)
         THEN "External URL must be an allowed S3 domain"
    ELSE "none"

\* What a HEAD or GET can come back with: the fetch promise rejecting
\* (networkError), or a response with its ok flag and the two headers read,
\* each <<>> when the header is absent.
HttpResponses ==
    {[networkError |-> TRUE]} \cup
    [networkError : {FALSE},
     ok : BOOLEAN,
     content_type : {<<>>, <<"application/json">>,
                     <<"application/json; charset=utf-8">>, <<"text/html">>},
     content_length : {<<>>, <<0>>, <<MAX_SIZE>>, <<MAX_SIZE + 1>>}]

\* contentType.includes("application/json"), on the values of the model.
includesApplicationJson(contentType) ==
    contentType \in {"application/json", "application/json; charset=utf-8"}

headRejection_NoSizeCheck(response) ==
    LET contentType ==
            IF response.content_type = <<>> THEN "" ELSE response.content_type[1]
    IN  IF ~response.ok THEN "Unable to verify external subdomains file"
        ELSE IF ~includesApplicationJson(contentType)
             THEN "External file is not application/json"
        ELSE "none"

\* The checks on the HEAD response: the message of the Error thrown, "none"
\* when the GET goes ahead.
headRejection(response) ==
    LET contentType ==
            IF response.content_type = <<>> THEN "" ELSE response.content_type[1]
        reportedSize == response.content_length
    IN  IF ~response.ok THEN "Unable to verify external subdomains file"
        ELSE IF ~includesApplicationJson(contentType)
             THEN "External file is not application/json"
        ELSE IF reportedSize # <<>> /\ reportedSize[1] > MAX_SIZE
             THEN "External subdomain file too large"
        ELSE "none"

\* What the accumulated body turns out to be in the end handler.
BodyKinds == {"not-json", "no-subdomains", "bad-schema", "valid"}

endRejection(bodyKind) ==
    CASE bodyKind = "not-json" -> "Invalid JSON format in external subdomains file"
      [] bodyKind = "no-subdomains" -> "No 'subdomains' property found in the JSON"
      [] bodyKind = "bad-schema" -> "Invalid subdomains schema: "
      [] OTHER -> "none"

Settle(kind, message) ==
    /\ outcome' = [kind |-> kind, message |-> message]
    /\ fetchPc' = "settled"

\* From the call to the first await: the cache lookup, the six checks and
\* the HEAD request going out.
fetchStart ==
    /\ fetchPc = "start"
    /\ IF cache.external_subdomain_file # <<>>
       THEN /\ Settle("resolved", "cached")
            /\ UNCHANGED netLog
       ELSE IF urlRejection(url) # "none"
       THEN /\ Settle("rejected", urlRejection(url))
            /\ UNCHANGED netLog
       ELSE /\ netLog' = Append(netLog, "HEAD")
            /\ fetchPc' = "head"
            /\ UNCHANGED outcome
    /\ UNCHANGED <<url, cache, headResponse, timerArmed, totalSize, chunks>>
    /\ UNCHANGED <<lifecycleVars, zonefileVars, oracleVars, serviceVars>>

\* The HEAD settles: a rejection propagates with the transport's message;
\* a response is checked, then the timer is set and the GET goes out.
fetchHeadSettles ==
    /\ fetchPc = "head"
    /\ \E response \in HttpResponses :
          IF response.networkError
          THEN /\ Settle("rejected", "request failed, reason: ECONNREFUSED")
               /\ UNCHANGED <<netLog, headResponse, timerArmed>>
          ELSE /\ headResponse' = <<response>>
               /\ IF headRejection(response) # "none"
                  THEN /\ Settle("rejected", headRejection(response))
                       /\ UNCHANGED <<netLog, timerArmed>>
                  ELSE /\ timerArmed' = TRUE
                       /\ netLog' = Append(netLog, "GET")
                       /\ fetchPc' = "get"
                       /\ UNCHANGED outcome
    /\ UNCHANGED <<url, cache, totalSize, chunks>>
    /\ UNCHANGED <<lifecycleVars, zonefileVars, oracleVars, serviceVars>>

\* The GET's fetch promise settles before the timer fires: the timer is
\* cleared in the finally block; a rejection or a non-ok response throws.
fetchGetSettles ==
    /\ fetchPc = "get"
    /\ timerArmed
    /\ timerArmed' = FALSE
    /\ \E response \in HttpResponses :
          IF response.networkError
          THEN Settle("rejected",
                      "Failed to fetch external subdomains file (timeout or network error)")
          ELSE IF ~response.ok
          THEN Settle("rejected", "Failed to fetch external subdomains file")
          ELSE /\ fetchPc' = "body"
               /\ UNCHANGED outcome
    /\ UNCHANGED <<url, cache, netLog, headResponse, totalSize, chunks>>
    /\ UNCHANGED <<lifecycleVars, zonefileVars, oracleVars, serviceVars>>

\* FETCH_TIMEOUT elapses while the GET's fetch is pending: controller.abort()
\* makes it reject.
fetchTimeout ==
    /\ fetchPc = "get"
    /\ timerArmed
    /\ timerArmed' = FALSE
    /\ Settle("rejected",
              "Failed to fetch external subdomains file (timeout or network error)")
    /\ UNCHANGED <<url, cache, netLog, headResponse, totalSize, chunks>>
    /\ UNCHANGED <<lifecycleVars, zonefileVars, oracleVars, serviceVars>>

fetchData_CapCheckedBeforeCounting ==
    /\ fetchPc = "body"
    /\ \E length \in {1, MAX_SIZE} :
          /\ Len(chunks) < MaxChunks
          /\ totalSize' = totalSize + length
          /\ IF totalSize > MAX_SIZE
             THEN /\ Settle("rejected", "External subdomain file too large")
                  /\ UNCHANGED chunks
             ELSE /\ chunks' = Append(chunks, length)
                  /\ UNCHANGED <<fetchPc, outcome>>
    /\ UNCHANGED <<url, cache, netLog, headResponse, timerArmed>>
    /\ UNCHANGED <<lifecycleVars, zonefileVars, oracleVars, serviceVars>>

\* stream.on("data"): the chunk is counted; over the cap the stream is
\* destroyed and the promise rejected, otherwise the chunk is kept.
fetchData ==
    /\ fetchPc = "body"
    /\ \E length \in {1, MAX_SIZE} :
          /\ Len(chunks) < MaxChunks
          /\ totalSize' = totalSize + length
          /\ IF totalSize' > MAX_SIZE
             THEN /\ Settle("rejected", "External subdomain file too large")
                  /\ UNCHANGED chunks
             ELSE /\ chunks' = Append(chunks, length)
                  /\ UNCHANGED <<fetchPc, outcome>>
    /\ UNCHANGED <<url, cache, netLog, headResponse, timerArmed>>
    /\ UNCHANGED <<lifecycleVars, zonefileVars, oracleVars, serviceVars>>

\* stream.on("error")
fetchStreamError ==
    /\ fetchPc = "body"
    /\ Settle("rejected", "Error reading external subdomains file: ECONNRESET")
    /\ UNCHANGED <<url, cache, netLog, headResponse, timerArmed, totalSize, chunks>>
    /\ UNCHANGED <<lifecycleVars, zonefileVars, oracleVars, serviceVars>>

fetchEnd_CachedBeforeValidation ==
    /\ fetchPc = "body"
    /\ \E bodyKind \in BodyKinds :
          /\ cache' = [cache EXCEPT !.external_subdomain_file = <<"data">>]
          /\ IF endRejection(bodyKind) # "none"
             THEN Settle("rejected", endRejection(bodyKind))
             ELSE Settle("resolved", "data")
    /\ UNCHANGED <<url, netLog, headResponse, timerArmed, totalSize, chunks>>
    /\ UNCHANGED <<lifecycleVars, zonefileVars, oracleVars, serviceVars>>

\* stream.on("end"): parse, look for "subdomains", validate, cache, resolve.
fetchEnd ==
    /\ fetchPc = "body"
    /\ \E bodyKind \in BodyKinds :
          IF endRejection(bodyKind) # "none"
          THEN /\ Settle("rejected", endRejection(bodyKind))
               /\ UNCHANGED cache
          ELSE /\ cache' = [cache EXCEPT !.external_subdomain_file = <<"data">>]
               /\ Settle("resolved", "data")
    /\ UNCHANGED <<url, netLog, headResponse, timerArmed, totalSize, chunks>>
    /\ UNCHANGED <<lifecycleVars, zonefileVars, oracleVars, serviceVars>>

\* The next call of fetchExternalSubdomains with the same urlString.
fetchCall ==
    /\ fetchPc \in {"settled", "replied"}
    /\ fetchPc' = "start"
    /\ netLog' = <<>>
    /\ headResponse' = <<>>
    /\ totalSize' = 0
    /\ chunks' = <<>>
    /\ outcome' = [kind |-> "pending"]
    /\ UNCHANGED <<url, cache, timerArmed>>
    /\ UNCHANGED <<lifecycleVars, zonefileVars, oracleVars, serviceVars>>

\* getSubdomains resumes from its await of fetchExternalSubdomains: the data
\* of a resolved call is cached under the name's key and sent; the Error of a
\* rejected call is caught and its message sent with status 400.
getSubdomainsResume ==
    /\ fetchPc = "settled"
    /\ fetchPc' = "replied"
    /\ IF outcome.kind = "resolved"
       THEN LET response == [subdomains |-> outcome.message] IN
            /\ cache' = [cache EXCEPT !.subdomains = <<response>>]
            /\ Send("getSubdomains", [code |-> 200, body |-> response], <<>>)
       ELSE /\ Send("getSubdomains",
                    [code |-> 400, body |-> [error |-> outcome.message]], <<>>)
            /\ UNCHANGED cache
    /\ UNCHANGED <<nameRow, nsRow, height, pending>>
    /\ UNCHANGED <<url, netLog, headResponse, timerArmed, totalSize, chunks, outcome>>
    /\ UNCHANGED <<zonefileVars, oracleVars, serviceVars>>

LifecycleIdle ==
    /\ nameRow = [revoked |-> FALSE, renewal_height |-> 0,
                  imported_at |-> NullInt, owner |-> "SP1OWNER"]
    /\ nsRow = [launched_at |-> LaunchHeight, lifetime |-> 0,
                namespace_manager |-> NullText]
    /\ height = BaseHeight
    /\ pending = <<>>
    /\ reply = NoReply

FetchInit ==
    /\ LifecycleIdle
    /\ cache = EmptyCache
    /\ url \in UrlStrings
    /\ fetchPc = "start"
    /\ netLog = <<>>
    /\ headResponse = <<>>
    /\ timerArmed = FALSE
    /\ totalSize = 0
    /\ chunks = <<>>
    /\ outcome = [kind |-> "pending"]
    /\ ZonefileIdle
    /\ OracleIdle
    /\ ServiceIdle

FetchNext ==
    \/ fetchStart
    \/ fetchHeadSettles
    \/ fetchGetSettles
    \/ fetchTimeout
    \/ fetchData
    \/ fetchStreamError
    \/ fetchEnd
    \/ fetchCall
    \/ getSubdomainsResume
    \/ CacheExpire

FetchSpec == FetchInit /\ [][FetchNext]_vars

\* The same calls with the steps that need no cooperation from the remote
\* server taken eventually: the synchronous prefix of the call runs, and the
\* FETCH_TIMEOUT timer fires while it is set.  Nothing obliges the server to
\* answer, to send data or to end the body.
FetchLiveSpec ==
    /\ FetchInit
    /\ [][FetchNext]_vars
    /\ WF_vars(fetchStart)
    /\ WF_vars(fetchTimeout)

(***************************************************************************)
(* decodeZonefile.  A string is the sequence of its characters; a Buffer   *)
(* is the sequence of its bytes.                                           *)
(***************************************************************************)
MaxTextLen == 2

\* The characters texts are made of: three ASCII characters and one that
\* takes two bytes in UTF-8.
TextChars == {"{", "}", "1", "e-acute"}

Texts == UNION {[1..n -> TextChars] : n \in 0..MaxTextLen}

\* A JavaScript null or undefined where a string is expected.
NullString == <<"<null>">>

utf8Bytes(char) ==
    CASE char = "{" -> <<123>>
      [] char = "}" -> <<125>>
      [] char = "1" -> <<49>>
      [] char = "e-acute" -> <<195, 169>>

RECURSIVE utf8Encode(_)
utf8Encode(text) ==
    IF text = <<>> THEN <<>> ELSE utf8Bytes(Head(text)) \o utf8Encode(Tail(text))

HexDigits ==
    <<"0", "1", "2", "3", "4", "5", "6", "7", "8", "9", "a", "b", "c", "d", "e", "f">>

RECURSIVE hexEncode(_)
hexEncode(bytes) ==
    IF bytes = <<>> THEN <<>>
    ELSE <<HexDigits[(Head(bytes) \div 16) + 1], HexDigits[(Head(bytes) % 16) + 1]>>
             \o hexEncode(Tail(bytes))

toUpperCase(char) ==
    CASE char = "a" -> "A" [] char = "b" -> "B" [] char = "c" -> "C"
      [] char = "d" -> "D" [] char = "e" -> "E" [] char = "f" -> "F"
      [] OTHER -> char

\* The blobs decodeZonefile is given: the hex encoding of each text, plain,
\* prefixed, in upper case, and damaged in several ways; and no blob at all.
HexVariants(hex) ==
    {hex,
     <<"0", "x">> \o hex,
     [i \in 1..Len(hex) |-> toUpperCase(hex[i])],
     hex \o <<"7">>,
     <<"0", "x">> \o hex \o <<"7">>,
     hex \o <<"z", "z">>,
     IF hex = <<>> THEN <<"z">> ELSE [hex EXCEPT ![Len(hex)] = "z"],
     IF Len(hex) < 4 THEN hex
     ELSE SubSeq(hex, 1, 2) \o <<"0", "x">> \o SubSeq(hex, 3, Len(hex))}

HexInputs ==
    {NullString} \cup UNION {HexVariants(hexEncode(utf8Encode(t))) : t \in Texts}

\* The value of a hex digit in Buffer's hex decoder, -1 for any other
\* character.
hexValue(char) ==
    IF \E i \in 1..16 : char \in {HexDigits[i], toUpperCase(HexDigits[i])}
    THEN (CHOOSE i \in 1..16 : char \in {HexDigits[i], toUpperCase(HexDigits[i])}) - 1
    ELSE 0 - 1

\* Buffer.from(hex, "hex"): one byte per pair of hex digits, stopping at the
\* first pair that is not two hex digits; a last unpaired character is
\* dropped.  It does not throw.
RECURSIVE BufferFromHex(_)
BufferFromHex(hex) ==
    IF Len(hex) < 2 THEN <<>>
    ELSE IF hexValue(hex[1]) < 0 \/ hexValue(hex[2]) < 0 THEN <<>>
    ELSE <<hexValue(hex[1]) * 16 + hexValue(hex[2])>>
             \o BufferFromHex(SubSeq(hex, 3, Len(hex)))

\* buffer.toString("utf8"): a byte that is not part of a well-formed
\* sequence decodes to U+FFFD.
RECURSIVE toStringUtf8(_)
toStringUtf8(bytes) ==
    IF bytes = <<>> THEN <<>>
    ELSE IF bytes[1] = 123 THEN <<"{">> \o toStringUtf8(Tail(bytes))
    ELSE IF bytes[1] = 125 THEN <<"}">> \o toStringUtf8(Tail(bytes))
    ELSE IF bytes[1] = 49 THEN <<"1">> \o toStringUtf8(Tail(bytes))
    ELSE IF bytes[1] = 195 /\ Len(bytes) >= 2 /\ bytes[2] = 169
         THEN <<"e-acute">> \o toStringUtf8(SubSeq(bytes, 3, Len(bytes)))
    ELSE <<"U+FFFD">> \o toStringUtf8(Tail(bytes))

\* str.replace("0x", ""): the first occurrence of "0x", wherever it is, is
\* removed.
replace0x(str) ==
    IF \E i \in 1..(Len(str) - 1) : str[i] = "0" /\ str[i + 1] = "x"
    THEN LET i == CHOOSE j \in 1..(Len(str) - 1) :
                      /\ str[j] = "0" /\ str[j + 1] = "x"
                      /\ \A k \in 1..(j - 1) : ~(str[k] = "0" /\ str[k + 1] = "x")
         IN  SubSeq(str, 1, i - 1) \o SubSeq(str, i + 2, Len(str))
    ELSE str

\* JSON.parse on the texts of the model: "{}" is the empty object, a run of
\* the digit 1 is a number, anything else throws.
RECURSIVE RepUnit(_)
RepUnit(n) == IF n = 0 THEN 0 ELSE 10 * RepUnit(n - 1) + 1

JSONparse(text) ==
    IF text = <<"{", "}">>
    THEN [threw |-> FALSE, value |-> [type |-> "object", n |-> 0]]
    ELSE IF text # <<>> /\ \A i \in 1..Len(text) : text[i] = "1"
    THEN [threw |-> FALSE, value |-> [type |-> "number", n |-> RepUnit(Len(text))]]
    ELSE [threw |-> TRUE]

decodeZonefile_PrefixKept(hexBlob) ==
    IF hexBlob \in {NullString, <<>>} THEN [kind |-> "null"]
    ELSE LET text == toStringUtf8(BufferFromHex(hexBlob))
             parsed == JSONparse(text)
         IN  IF parsed.threw THEN [kind |-> "text", text |-> text]
             ELSE [kind |-> "json", json |-> parsed.value]

\* decodeZonefile of zonefile-utils.js.  Nothing in the try block throws for
\* a string argument, so the catch that returns null is not reached.
decodeZonefile(hexBlob) ==
    IF hexBlob \in {NullString, <<>>} THEN [kind |-> "null"]
    ELSE LET hex == replace0x(hexBlob)
             text == toStringUtf8(BufferFromHex(hex))
             parsed == JSONparse(text)
         IN  IF parsed.threw THEN [kind |-> "text", text |-> text]
             ELSE [kind |-> "json", json |-> parsed.value]

\* decodeZonefile of server.js.
serverDecodeZonefile(hexBlob) ==
    IF hexBlob \in {NullString, <<>>} THEN [kind |-> "null"]
    ELSE LET hex == replace0x(hexBlob)
             text == toStringUtf8(BufferFromHex(hex))
             parsed == JSONparse(text)
         IN  IF parsed.threw THEN [kind |-> "text", text |-> text]
             ELSE [kind |-> "json", json |-> parsed.value]

decodeZonefileCall ==
    /\ decoded = <<>>
    /\ decoded' = <<[by |-> "zonefile-utils.js", result |-> decodeZonefile(zonefileHex)]>>
    /\ UNCHANGED <<zonefileHex, document, verdict>>
    /\ UNCHANGED <<lifecycleVars, cache, fetchVars, oracleVars, serviceVars>>

serverDecodeZonefileCall ==
    /\ decoded = <<>>
    /\ decoded' = <<[by |-> "server.js", result |-> serverDecodeZonefile(zonefileHex)]>>
    /\ UNCHANGED <<zonefileHex, document, verdict>>
    /\ UNCHANGED <<lifecycleVars, cache, fetchVars, oracleVars, serviceVars>>

DecodeInit ==
    /\ LifecycleIdle
    /\ cache = EmptyCache
    /\ FetchIdle
    /\ OracleIdle
    /\ ServiceIdle
    /\ zonefileHex \in HexInputs
    /\ decoded = <<>>
    /\ document = [t |-> "undefined"]
    /\ verdict = [utils |-> <<>>, server |-> <<>>, external |-> <<>>]

DecodeNext ==
    \/ decodeZonefileCall
    \/ serverDecodeZonefileCall

DecodeSpec == DecodeInit /\ [][DecodeNext]_vars

(***************************************************************************)
(* The zonefile validators.  A JavaScript value is a record tagged with    *)
(* its kind; an object carries the function from its property names to     *)
(* their values, an array the sequence of its elements.                    *)
(***************************************************************************)
Str == [t |-> "string"]
Num == [t |-> "number"]
Null == [t |-> "null"]
Undefined == [t |-> "undefined"]
Obj(props) == [t |-> "object", props |-> props]
Arr(items) == [t |-> "array", items |-> items]

\* typeof value
typeof(value) ==
    IF value.t \in {"object", "array", "null"} THEN "object" ELSE value.t

\* name in value, for an object or an array (whose property names are its
\* indices and "length")
In(name, value) ==
    IF value.t = "object" THEN name \in DOMAIN value.props ELSE FALSE

\* value[name]
Get(value, name) ==
    IF value.t = "object" /\ name \in DOMAIN value.props
    THEN value.props[name] ELSE Undefined

baseFields == <<"owner", "general", "twitter", "url", "nostr", "lightning", "btc">>

hasValidBaseFields(zonefile) ==
    \A i \in 1..Len(baseFields) : typeof(Get(zonefile, baseFields[i])) = "string"

hasValidSubdomainStructure(zonefile) ==
    LET hasExternalFile ==
            /\ In("externalSubdomainFile", zonefile)
            /\ typeof(Get(zonefile, "externalSubdomainFile")) = "string"
        hasSubdomains == In("subdomains", zonefile)
        subdomains == Get(zonefile, "subdomains")
    IN  IF hasExternalFile /\ hasSubdomains THEN FALSE
        ELSE IF hasExternalFile THEN TRUE
        ELSE IF ~hasSubdomains THEN FALSE
        ELSE IF typeof(subdomains) # "object" \/ subdomains.t = "null"
                    \/ subdomains.t = "array"
             THEN FALSE
        ELSE \A subName \in DOMAIN subdomains.props :
                LET subProps == subdomains.props[subName] IN
                /\ ~(typeof(subProps) # "object" \/ subProps.t = "null")
                /\ hasValidBaseFields(subProps)

\* isValidZonefileFormat of zonefile-utils.js
isValidZonefileFormat(zonefile) ==
    IF ~hasValidBaseFields(zonefile) THEN FALSE
    ELSE IF In("subdomains", zonefile) \/ In("externalSubdomainFile", zonefile)
         THEN hasValidSubdomainStructure(zonefile)
    ELSE TRUE

oldRequiredFields ==
    <<"owner", "general", "twitter", "url", "nostr", "lightning", "btc", "subdomains">>

oldSubdomainFields == <<"name", "sequence", "owner", "signature", "text">>

validateOldFormat(zf) ==
    /\ \A i \in 1..Len(oldRequiredFields) : In(oldRequiredFields[i], zf)
    /\ Get(zf, "subdomains").t = "array"
    /\ \A i \in 1..Len(Get(zf, "subdomains").items) :
          LET subdomain == Get(zf, "subdomains").items[i] IN
          /\ \A k \in 1..Len(oldSubdomainFields) : In(oldSubdomainFields[k], subdomain)
          /\ typeof(Get(subdomain, "sequence")) = "number"

\* isValidZonefileFormat of server.js
serverIsValidZonefileFormat(zonefile) ==
    IF validateOldFormat(zonefile) THEN TRUE
    ELSE IF \E i \in 1..Len(baseFields) :
                typeof(Get(zonefile, baseFields[i])) # "string"
         THEN FALSE
    ELSE LET hasExternalFile ==
                 /\ In("externalSubdomainFile", zonefile)
                 /\ typeof(Get(zonefile, "externalSubdomainFile")) = "string"
             hasSubdomains == In("subdomains", zonefile)
             subdomains == Get(zonefile, "subdomains")
         IN  IF hasExternalFile /\ hasSubdomains THEN FALSE
             ELSE IF hasExternalFile THEN TRUE
             ELSE IF ~hasSubdomains THEN FALSE
             ELSE IF typeof(subdomains) # "object" \/ subdomains.t = "null"
                         \/ subdomains.t = "array"
                  THEN FALSE
             ELSE \A subName \in DOMAIN subdomains.props :
                     LET subProps == subdomains.props[subName] IN
                     /\ ~(typeof(subProps) # "object" \/ subProps.t = "null")
                     /\ \A i \in 1..Len(baseFields) :
                           typeof(Get(subProps, baseFields[i])) = "string"

\* /^[a-z0-9-_]+$/ on the labels of the model
MatchesLabelPattern(label) == label \in {"sub", "my-sub_1"}

\* validateSubdomains, the compiled subdomainsSchema: an object, every
\* property name matching the pattern (no additional properties), every
\* value an object with the seven required string properties and no other.
validateSubdomains(data) ==
    /\ data.t = "object"
    /\ \A label \in DOMAIN data.props :
          LET record == data.props[label] IN
          /\ MatchesLabelPattern(label)
          /\ record.t = "object"
          /\ \A i \in 1..Len(baseFields) :
                /\ baseFields[i] \in DOMAIN record.props
                /\ record.props[baseFields[i]].t = "string"
          /\ \A name \in DOMAIN record.props :
                \E i \in 1..Len(baseFields) : baseFields[i] = name

(***************************************************************************)
(* The documents the validators are given.                                 *)
(***************************************************************************)
BaseFieldNames == {baseFields[i] : i \in 1..Len(baseFields)}

\* An object over the given property names in which at most one property
\* is missing or is not of the type the well-formed object has.
ObjectsNear(wellFormed) ==
    {Obj(wellFormed.props)} \cup
    {Obj([name \in DOMAIN wellFormed.props \ {gone} |-> wellFormed.props[name]]) :
         gone \in DOMAIN wellFormed.props} \cup
    {Obj([wellFormed.props EXCEPT ![odd] = IF @ = Str THEN Num ELSE Str]) :
         odd \in DOMAIN wellFormed.props}

SubdomainRecord == Obj([name \in BaseFieldNames |-> Str])

LegacySubdomain ==
    Obj([name \in {"name", "sequence", "owner", "signature", "text"} |->
            IF name = "sequence" THEN Num ELSE Str])

\* The values of an inline subdomains map, or of the subdomains of an
\* external file: one label to one record, with the label or the record
\* varied.
SubdomainMaps ==
    {Obj(<<>>)} \cup
    {Obj(label :> SubdomainRecord) : label \in {"sub", "my-sub_1", "Sub", "a.b", ""}} \cup
    {Obj("sub" :> record) : record \in ObjectsNear(SubdomainRecord)} \cup
    {Obj("sub" :> Obj(("extra" :> Str) @@ SubdomainRecord.props)),
     Obj("sub" :> Null),
     Obj("sub" :> Arr(<<>>)),
     Obj(("sub" :> SubdomainRecord) @@ ("Sub" :> SubdomainRecord))}

SubdomainArrays ==
    {Arr(<<>>), Arr(<<LegacySubdomain, LegacySubdomain>>)} \cup
    {Arr(<<element>>) : element \in ObjectsNear(LegacySubdomain)}

Documents ==
    LET bases == ObjectsNear(SubdomainRecord)
        subdomainValues == SubdomainMaps \cup SubdomainArrays \cup {Null, Str}
        externalValues == {Str, Num}
    IN  bases \cup
        {Obj(("subdomains" :> s) @@ b.props) : s \in subdomainValues, b \in bases} \cup
        {Obj(("externalSubdomainFile" :> e) @@ b.props) : e \in externalValues, b \in bases} \cup
        {Obj(("subdomains" :> s) @@ ("externalSubdomainFile" :> e) @@ b.props) :
             s \in subdomainValues, e \in externalValues, b \in {SubdomainRecord}}

NoVerdict == [utils |-> <<>>, server |-> <<>>, external |-> <<>>]

\* getAndValidateZonefile hands the decoded zonefile to isValidZonefileFormat.
isValidZonefileFormatCall ==
    /\ document \in Documents
    /\ verdict.utils = <<>>
    /\ verdict' = [verdict EXCEPT !.utils = <<isValidZonefileFormat(document)>>]
    /\ UNCHANGED <<zonefileHex, decoded, document>>
    /\ UNCHANGED <<lifecycleVars, cache, fetchVars, oracleVars, serviceVars>>

\* The handlers of server.js hand it to their own isValidZonefileFormat.
serverIsValidZonefileFormatCall ==
    /\ document \in Documents
    /\ verdict.server = <<>>
    /\ verdict' = [verdict EXCEPT !.server = <<serverIsValidZonefileFormat(document)>>]
    /\ UNCHANGED <<zonefileHex, decoded, document>>
    /\ UNCHANGED <<lifecycleVars, cache, fetchVars, oracleVars, serviceVars>>

\* The end handler of fetchExternalSubdomains validates data.subdomains of
\* an external file that carries the same subdomains value as the document.
validateSubdomainsCall ==
    /\ document \in Documents
    /\ In("subdomains", document)
    /\ verdict.external = <<>>
    /\ verdict' = [verdict EXCEPT
                      !.external = <<validateSubdomains(Get(document, "subdomains"))>>]
    /\ UNCHANGED <<zonefileHex, decoded, document>>
    /\ UNCHANGED <<lifecycleVars, cache, fetchVars, oracleVars, serviceVars>>

ValidateInit ==
    /\ LifecycleIdle
    /\ cache = EmptyCache
    /\ FetchIdle
    /\ OracleIdle
    /\ ServiceIdle
    /\ zonefileHex = <<>>
    /\ decoded = <<>>
    /\ document \in Documents
    /\ verdict = NoVerdict

ValidateNext ==
    \/ isValidZonefileFormatCall
    \/ serverIsValidZonefileFormatCall
    \/ validateSubdomainsCall

ValidateSpec == ValidateInit /\ [][ValidateNext]_vars

(***************************************************************************)
(* getCurrentBurnBlockHeight.                                              *)
(***************************************************************************)
BURN_BLOCK_CACHE_KEY ==
    [mainnet |-> "mainnet_burn_block_height", testnet |-> "testnet_burn_block_height"]

apiUrl(network) ==
    IF network = "testnet" THEN "https://api.testnet.hiro.so" ELSE "https://api.hiro.so"

NumberValue(n) == [t |-> "number", n |-> n]

\* What the upstream GET can come back with: the fetch rejecting, or a
\* response with its ok flag and its body.  A body is text that is not JSON,
\* a JSON object without results, one with an empty results array, or one
\* whose first result has the given burn_block_height (Undefined: the
\* property is missing).
UpstreamAnswers ==
    {[networkError |-> TRUE]} \cup
    [networkError : {FALSE},
     ok : BOOLEAN,
     body : {[form |-> "not-json"], [form |-> "no-results"], [form |-> "empty-results"]}
            \cup {[form |-> "result", burn_block_height |-> h] :
                     h \in {NumberValue(BaseHeight), NumberValue(BaseHeight + 1),
                            Null, Undefined, Str}}]

\* response.json() followed by data.results[0].burn_block_height:
\* the value read, or the throw.
readBurnBlockHeight(body) ==
    CASE body.form = "not-json" ->
             [threw |-> TRUE, message |-> "invalid json response body"]
      [] body.form = "no-results" ->
             [threw |-> TRUE, message |-> "Cannot read properties of undefined (reading '0')"]
      [] body.form = "empty-results" ->
             [threw |-> TRUE,
              message |-> "Cannot read properties of undefined (reading 'burn_block_height')"]
      [] OTHER -> [threw |-> FALSE, value |-> body.burn_block_height]

\* From the call to the await of the upstream fetch: the cache lookup, and
\* on a miss the request going out.
getCurrentBurnBlockHeightCall ==
    /\ oraclePc \in {"idle", "done"}
    /\ \E network \in {"mainnet", "testnet"} :
          LET cacheKey == BURN_BLOCK_CACHE_KEY[network]
              cachedHeight == IF cache[cacheKey] = <<>> THEN Undefined
                              ELSE cache[cacheKey][1]
          IN  /\ oracleNetwork' = network
              /\ IF cachedHeight # Undefined
                 THEN /\ oracleResult' = [kind |-> "returned", value |-> cachedHeight]
                      /\ upstreamRequests' = <<>>
                      /\ oraclePc' = "done"
                 ELSE /\ oracleResult' = [kind |-> "none"]
                      /\ upstreamRequests' =
                             <<[url |-> apiUrl(network) \o "/extended/v2/burn-blocks?limit=1",
                                answer |-> <<>>]>>
                      /\ oraclePc' = "awaiting"
    /\ UNCHANGED cache
    /\ UNCHANGED <<lifecycleVars, fetchVars, zonefileVars, serviceVars>>

\* The upstream fetch settles: a rejection or a non-ok response throws, and
\* so does a body that cannot be read down to results[0]; otherwise what was
\* read is cached and returned.
getCurrentBurnBlockHeightAnswered ==
    /\ oraclePc = "awaiting"
    /\ oraclePc' = "done"
    /\ \E answer \in UpstreamAnswers :
          /\ upstreamRequests' = [upstreamRequests EXCEPT ![1].answer = <<answer>>]
          /\ IF answer.networkError
             THEN /\ oracleResult' = [kind |-> "threw", message |-> "request failed"]
                  /\ UNCHANGED cache
             ELSE IF ~answer.ok
             THEN /\ oracleResult' = [kind |-> "threw", message |-> "HTTP error! status: 503"]
                  /\ UNCHANGED cache
             ELSE LET read == readBurnBlockHeight(answer.body) IN
                  IF read.threw
                  THEN /\ oracleResult' = [kind |-> "threw", message |-> read.message]
                       /\ UNCHANGED cache
                  ELSE /\ cache' = [cache EXCEPT
                                       ![BURN_BLOCK_CACHE_KEY[oracleNetwork]] = <<read.value>>]
                       /\ oracleResult' = [kind |-> "returned", value |-> read.value]
    /\ UNCHANGED oracleNetwork
    /\ UNCHANGED <<lifecycleVars, fetchVars, zonefileVars, serviceVars>>

OracleInit ==
    /\ LifecycleIdle
    /\ cache = EmptyCache
    /\ FetchIdle
    /\ zonefileHex = <<>>
    /\ decoded = <<>>
    /\ document = Undefined
    /\ verdict = NoVerdict
    /\ oraclePc = "idle"
    /\ oracleNetwork = "mainnet"
    /\ upstreamRequests = <<>>
    /\ oracleResult = [kind |-> "none"]
    /\ ServiceIdle

OracleNext ==
    \/ getCurrentBurnBlockHeightCall
    \/ getCurrentBurnBlockHeightAnswered
    \/ CacheExpire

OracleSpec == OracleInit /\ [][OracleNext]_vars

(***************************************************************************)
(* server.js: getNameRarity.  Decimal numbers are carried as integers: a   *)
(* percentile and a returned score in hundredths, the running rarityScore  *)
(* in thousandths (0.2 times a number of hundredths is a whole number of   *)
(* thousandths).                                                           *)
(***************************************************************************)
DigitChars == {"0", "1", "2", "3", "4", "5", "6", "7", "8", "9"}

LowerChars ==
    {"a", "b", "c", "d", "e", "f", "g", "h", "i", "j", "k", "l", "m",
     "n", "o", "p", "q", "r", "s", "t", "u", "v", "w", "x", "y", "z"}

\* name_string values, each as its characters: every length tier, every
\* pattern class and none, palindromes and repeated characters.
RarityNames ==
    {<<"a", "b", "c">>,
     <<"1", "2", "1">>,
     <<"a", "1", "a">>,
     <<"a", "-", "b">>,
     <<"n", "o", "o", "n">>,
     <<"a", "b", "c", "b", "a">>,
     <<"a", "b", "c", "1", "2", "3">>,
     <<"s", "a", "t", "o", "s", "h", "i", "s">>,
     <<"b", "l", "o", "c", "k", "c", "h", "a", "i", "n", "e", "r">>,
     <<"b", "i", "t", "c", "o", "i", "n", "a", "d", "d", "r", "e", "s", "s">>}

RarityTotals == {1, 3, 5000}
RarityCounts == {0, 1, 2, 2501, 5000}

\* What the COUNT(*) queries can find in one namespace: the three pattern
\* classes exclude one another, so their counts add up to at most the total.
RarityStats ==
    {s \in [total : RarityTotals, same_length_count : RarityCounts \ {0},
            numeric_only_count : RarityCounts, letter_only_count : RarityCounts,
            special_char_count : RarityCounts] :
        /\ s.same_length_count <= s.total
        /\ s.numeric_only_count + s.letter_only_count + s.special_char_count
               <= s.total}

\* $1 ~ '^[0-9]+$'
isNumeric(name) ==
    Len(name) > 0 /\ \A i \in 1..Len(name) : name[i] \in DigitChars

\* $1 ~ '^[a-z]+$'
isLettersOnly(name) ==
    Len(name) > 0 /\ \A i \in 1..Len(name) : name[i] \in LowerChars

\* $1 ~ '[^a-z0-9]'
hasSpecialChars(name) ==
    \E i \in 1..Len(name) : name[i] \notin LowerChars \cup DigitChars

\* name_string.split("").reverse().join("")
reverse(name) == [i \in 1..Len(name) |-> name[Len(name) + 1 - i]]

\* /(.)\1+/.test(name_string)
hasRepeatingChars(name) ==
    \E i \in 1..(Len(name) - 1) : name[i] = name[i + 1]

\* ROUND((count::numeric / total::numeric) * 100, 2), in hundredths; ROUND
\* on numeric rounds a tie away from zero.
percentile(count, total) == (count * 20000 + total) \div (2 * total)

\* rarityScore.toFixed(2) read back by parseFloat, in hundredths, of a
\* rarityScore in thousandths that is not negative.
toFixed2(thousandths) == (thousandths + 5) \div 10

\* Math.max(0, Math.min(100, rarityScore))
clamp(thousandths) ==
    IF thousandths > 100000 THEN 100000
    ELSE IF thousandths < 0 THEN 0 ELSE thousandths

\* The conditional chain on the score that has not been rounded.
classification(thousandths) ==
    IF thousandths <= 20000 THEN "Ultra Rare"
    ELSE IF thousandths <= 40000 THEN "Rare"
    ELSE IF thousandths <= 60000 THEN "Uncommon"
    ELSE IF thousandths <= 80000 THEN "Common"
    ELSE "Very Common"

rarityScore_NotClamped(name, stats) ==
    LET lengthTerm ==
            IF Len(name) <= 3 THEN 10000
            ELSE IF Len(name) <= 5 THEN 30000
            ELSE IF Len(name) <= 7 THEN 50000
            ELSE IF Len(name) <= 10 THEN 70000
            ELSE 90000
        numericTerm ==
            IF isNumeric(name)
            THEN 2 * percentile(stats.numeric_only_count, stats.total) ELSE 0
        lettersTerm ==
            IF isLettersOnly(name)
            THEN 2 * percentile(stats.letter_only_count, stats.total) ELSE 0
        specialTerm ==
            IF hasSpecialChars(name)
            THEN 2 * percentile(stats.special_char_count, stats.total) ELSE 0
        palindromeTerm == IF name = reverse(name) THEN 0 - 10000 ELSE 0
        repeatingTerm == IF hasRepeatingChars(name) THEN 5000 ELSE 0
    IN  lengthTerm + numericTerm + lettersTerm + specialTerm
            + palindromeTerm + repeatingTerm

\* rarityScore after the handler's last assignment to it.
rarityScore(name, stats) ==
    LET lengthTerm ==
            IF Len(name) <= 3 THEN 10000
            ELSE IF Len(name) <= 5 THEN 30000
            ELSE IF Len(name) <= 7 THEN 50000
            ELSE IF Len(name) <= 10 THEN 70000
            ELSE 90000
        numericTerm ==
            IF isNumeric(name)
            THEN 2 * percentile(stats.numeric_only_count, stats.total) ELSE 0
        lettersTerm ==
            IF isLettersOnly(name)
            THEN 2 * percentile(stats.letter_only_count, stats.total) ELSE 0
        specialTerm ==
            IF hasSpecialChars(name)
            THEN 2 * percentile(stats.special_char_count, stats.total) ELSE 0
        palindromeTerm == IF name = reverse(name) THEN 0 - 10000 ELSE 0
        repeatingTerm == IF hasRepeatingChars(name) THEN 5000 ELSE 0
    IN  clamp(lengthTerm + numericTerm + lettersTerm + specialTerm
                  + palindromeTerm + repeatingTerm)

\* The body getNameRarity sends for a name it found (status 200).
getNameRarityBody(name, stats) ==
    [name |-> name,
     metrics |->
        [length |->
            [value |-> Len(name),
             count_same_length |-> stats.same_length_count,
             percentile |-> percentile(stats.same_length_count, stats.total)],
         type |->
            [is_numeric |-> isNumeric(name),
             is_letters_only |-> isLettersOnly(name),
             has_special_chars |-> hasSpecialChars(name),
             numeric_names_count |-> stats.numeric_only_count,
             letter_only_names_count |-> stats.letter_only_count,
             special_char_names_count |-> stats.special_char_count,
             numeric_percentile |->
                 percentile(stats.numeric_only_count, stats.total),
             letters_percentile |->
                 percentile(stats.letter_only_count, stats.total),
             special_char_percentile |->
                 percentile(stats.special_char_count, stats.total)],
         patterns |->
            [is_palindrome |-> name = reverse(name),
             has_repeating_chars |-> hasRepeatingChars(name)],
         rarity_score |->
            [score |-> toFixed2(rarityScore(name, stats)),
             classification |-> classification(rarityScore(name, stats))]]]

\* The rows of the namespace include the name: it is counted in the total,
\* among the names of its length and in its pattern class if it has one.
CountsName(name, stats) ==
    /\ stats.total >= 1
    /\ stats.same_length_count >= 1
    /\ isNumeric(name) => stats.numeric_only_count >= 1
    /\ isLettersOnly(name) => stats.letter_only_count >= 1
    /\ hasSpecialChars(name) => stats.special_char_count >= 1

\* getNameRarity for one full_name: the oracle call may throw (500 from
\* createNetworkHandler), the name may be missing (404), and otherwise the
\* score is computed from the metrics query.
getNameRarity ==
    /\ Idle
    /\ \E name \in RarityNames, step \in {"oracle-threw", "not-found", "found"} :
          CASE step = "oracle-threw" ->
                   Send("getNameRarity",
                        [code |-> 500, body |-> [error |-> "Internal Server Error"]],
                        <<>>)
            [] step = "not-found" ->
                   Send("getNameRarity",
                        [code |-> 404, body |-> [error |-> "Name not found"]],
                        <<height>>)
            [] OTHER ->
                   /\ CountsName(name, namespaceStats)
                   /\ Send("getNameRarity",
                           [code |-> 200,
                            body |-> getNameRarityBody(name, namespaceStats)],
                           <<height>>)
    /\ UNCHANGED <<nameRow, nsRow, height, cache, pending>>
    /\ UNCHANGED <<fetchVars, zonefileVars, oracleVars, serviceVars>>

RarityInit ==
    /\ LifecycleIdle
    /\ cache = EmptyCache
    /\ FetchIdle
    /\ ZonefileIdle
    /\ OracleIdle
    /\ namespaceStats \in RarityStats
    /\ responseHeaders = NoHeaders
    /\ poolHealth = <<>>

RarityNext == getNameRarity

RaritySpec == RarityInit /\ [][RarityNext]_vars

(***************************************************************************)
(* handlers/name-handlers.js: the list handlers, for mainnet with the      *)
(* default limit and offset, over a names table that holds nameRow.        *)
(***************************************************************************)
NamesTable == <<nameRow>>

validNamesWhere_ExpiryBlockIncluded(row, currentBurnBlock) ==
    /\ row.revoked = FALSE
    /\ (row.renewal_height = 0 \/ row.renewal_height >= currentBurnBlock)

\* WHERE revoked = false AND (renewal_height = 0 OR renewal_height > $3)
validNamesWhere(row, currentBurnBlock) ==
    /\ row.revoked = FALSE
    /\ (row.renewal_height = 0 \/ row.renewal_height > currentBurnBlock)

\* WHERE renewal_height != 0 AND renewal_height <= $3 AND revoked = false
expiredNamesWhere(row, currentBurnBlock) ==
    /\ row.renewal_height # 0
    /\ row.renewal_height <= currentBurnBlock
    /\ row.revoked = FALSE

\* WHERE revoked = true
revokedNamesWhere(row, currentBurnBlock) == row.revoked = TRUE

\* WHERE owner = $1 AND revoked = false AND renewal_height != 0
\* AND renewal_height > $4 AND renewal_height <= $5
expiringNamesWhere(address, row, currentBurnBlock) ==
    LET expirationWindow == 4320
        expirationThreshold == currentBurnBlock + expirationWindow
    IN  /\ row.owner = address
        /\ row.revoked = FALSE
        /\ row.renewal_height # 0
        /\ row.renewal_height > currentBurnBlock
        /\ row.renewal_height <= expirationThreshold

listWhere(list, row, currentBurnBlock) ==
    CASE list = "valid" -> validNamesWhere(row, currentBurnBlock)
      [] list = "expired" -> expiredNamesWhere(row, currentBurnBlock)
      [] list = "revoked" -> revokedNamesWhere(row, currentBurnBlock)

\* The columns the list queries select.
listedRow(row) == [owner |-> row.owner, renewal_height |-> row.renewal_height]

\* result.rows of a list query.
listRows(list, table, currentBurnBlock) ==
    LET selected == SelectSeq(table, LAMBDA row : listWhere(list, row, currentBurnBlock))
    IN  [i \in 1..Len(selected) |-> listedRow(selected[i])]

\* result.rows of getExpiringNamesByAddress, with blocks_until_expiry.
expiringRows(address, table, currentBurnBlock) ==
    LET selected == SelectSeq(table, LAMBDA row :
                                  expiringNamesWhere(address, row, currentBurnBlock))
    IN  [i \in 1..Len(selected) |->
            [owner |-> selected[i].owner,
             renewal_height |-> selected[i].renewal_height,
             blocks_until_expiry |-> selected[i].renewal_height - currentBurnBlock]]

\* The key the total of a list is cached under.
listCountKey(list, currentBurnBlock) ==
    IF list = "revoked" THEN "revoked_names_count_mainnet"
    ELSE countCacheKey(list, currentBurnBlock)

listHandler(list) ==
    CASE list = "valid" -> "getValidNames"
      [] list = "expired" -> "getExpiredNames"
      [] list = "revoked" -> "getRevokedNames"

\* getValidNames, getExpiredNames and getRevokedNames: a cached response is
\* sent as it is; otherwise the total comes from the count cache or from the
\* count query, which caches it, and the response is cached and sent.
getNamesList(list) ==
    LET cacheKey == list \o "_names"
        countKey == listCountKey(list, height)
        rows == listRows(list, NamesTable, height)
        totalCount == IF cache[countKey] # <<>> THEN cache[countKey][1] ELSE Len(rows)
        response == [total |-> totalCount, current_burn_block |-> height,
                     limit |-> 50, offset |-> 0, names |-> rows]
    IN  /\ Idle
        /\ IF cache[cacheKey] # <<>>
           THEN /\ Send(listHandler(list), [code |-> 200, body |-> cache[cacheKey][1]],
                        <<>>)
                /\ UNCHANGED cache
           ELSE /\ Send(listHandler(list), [code |-> 200, body |-> response], <<height>>)
                /\ cache' = [cache EXCEPT ![countKey] = <<totalCount>>,
                                          ![cacheKey] = <<response>>]
        /\ UNCHANGED <<nameRow, nsRow, height, pending>>
        /\ UNCHANGED <<fetchVars, zonefileVars, oracleVars, serviceVars>>

getValidNames == getNamesList("valid")

getExpiredNames == getNamesList("expired")

getRevokedNames == getNamesList("revoked")

\* getExpiringNamesByAddress for the address of the owner: a cached response
\* is sent as it is; otherwise both queries run and the response is cached.
getExpiringNamesByAddress ==
    LET cacheKey == "expiring_names_by_address"
        rows == expiringRows(nameRow.owner, NamesTable, height)
        response == [total |-> Len(rows), current_burn_block |-> height,
                     limit |-> 50, offset |-> 0, names |-> rows]
    IN  /\ Idle
        /\ IF cache[cacheKey] # <<>>
           THEN /\ Send("getExpiringNamesByAddress",
                        [code |-> 200, body |-> cache[cacheKey][1]], <<>>)
                /\ UNCHANGED cache
           ELSE /\ Send("getExpiringNamesByAddress",
                        [code |-> 200, body |-> response], <<height>>)
                /\ cache' = [cache EXCEPT ![cacheKey] = <<response>>]
        /\ UNCHANGED <<nameRow, nsRow, height, pending>>
        /\ UNCHANGED <<fetchVars, zonefileVars, oracleVars, serviceVars>>

\* A list handler that finds no cached response and whose call of
\* getCurrentBurnBlockHeight throws: createNetworkHandler answers 500.
ListOracleFailure ==
    /\ Idle
    /\ \E list \in {"valid", "expired", "revoked", "expiring"} :
          /\ cache[IF list = "expiring" THEN "expiring_names_by_address"
                   ELSE list \o "_names"] = <<>>
          /\ Send(IF list = "expiring" THEN "getExpiringNamesByAddress"
                  ELSE listHandler(list),
                  [code |-> 500, body |-> [error |-> "Internal Server Error"]], <<>>)
    /\ UNCHANGED <<nameRow, nsRow, height, cache, pending>>
    /\ UNCHANGED <<fetchVars, zonefileVars, oracleVars, serviceVars>>

\* The chain grows and the cached height is refetched after its entry expired.
ListBurnBlockAdvance ==
    /\ \E h \in ListHeights : h > height /\ height' = h
    /\ UNCHANGED <<nameRow, nsRow, cache, pending, reply>>
    /\ UNCHANGED <<fetchVars, zonefileVars, oracleVars, serviceVars>>

ListInit ==
    /\ nameRow \in {row \in NameRows : row.imported_at = NullInt}
    /\ nsRow \in {ns \in NamespaceRows :
                     /\ Truthy(ns.launched_at)
                     /\ ns.lifetime > 0
                     /\ ns.namespace_manager = NullText}
    /\ height \in ListHeights
    /\ cache = EmptyCache
    /\ pending = <<>>
    /\ reply = NoReply
    /\ FetchIdle
    /\ ZonefileIdle
    /\ OracleIdle
    /\ ServiceIdle

ListNext ==
    \/ ListBurnBlockAdvance
    \/ ListOracleFailure
    \/ getValidNames
    \/ getExpiredNames
    \/ getRevokedNames
    \/ getExpiringNamesByAddress
    \/ CacheExpire

ListSpec == ListInit /\ [][ListNext]_vars

(***************************************************************************)
(* burnblock-service.js: getCurrentBurnBlockHeight called concurrently for *)
(* mainnet.  Here height is the tip of the chain the upstream reads when   *)
(* it serves a request, and upstreamRequests holds every request issued,   *)
(* with the answer the upstream gave and whether it has arrived.           *)
(***************************************************************************)
MaxCalls == 3
MaxGrowth == 2

\* From a call to its await of the upstream fetch: a cache hit returns, a
\* miss issues a request of its own, whatever requests are in flight.
concurrentCall ==
    LET cacheKey == BURN_BLOCK_CACHE_KEY["mainnet"]
        cachedHeight == IF cache[cacheKey] = <<>> THEN Undefined ELSE cache[cacheKey][1]
    IN  /\ Len(upstreamRequests) < MaxCalls
        /\ IF cachedHeight # Undefined
           THEN /\ oracleResult' = [kind |-> "returned", value |-> cachedHeight]
                /\ UNCHANGED upstreamRequests
           ELSE /\ upstreamRequests' =
                       Append(upstreamRequests,
                              [url |-> apiUrl("mainnet") \o "/extended/v2/burn-blocks?limit=1",
                               answer |-> <<>>, arrived |-> FALSE])
                /\ UNCHANGED oracleResult
        /\ UNCHANGED <<oraclePc, oracleNetwork, cache>>
        /\ UNCHANGED <<lifecycleVars, fetchVars, zonefileVars, serviceVars>>

\* The upstream serves one of the requests it has received: a non-ok
\* response, or the burn block at the tip of its chain.
upstreamServes ==
    /\ \E i \in 1..Len(upstreamRequests), ok \in BOOLEAN :
          /\ upstreamRequests[i].answer = <<>>
          /\ upstreamRequests' =
                 [upstreamRequests EXCEPT ![i].answer =
                     <<[networkError |-> FALSE, ok |-> ok,
                        body |-> [form |-> "result",
                                  burn_block_height |-> NumberValue(height)]]>>]
    /\ UNCHANGED <<oraclePc, oracleNetwork, oracleResult, cache>>
    /\ UNCHANGED <<lifecycleVars, fetchVars, zonefileVars, serviceVars>>

\* A response arrives and the call that awaits it resumes: a non-ok response
\* throws, otherwise the height read is cached and returned.  Responses
\* arrive in any order.
concurrentCallResumes ==
    /\ \E i \in 1..Len(upstreamRequests) :
          /\ upstreamRequests[i].answer # <<>>
          /\ ~upstreamRequests[i].arrived
          /\ upstreamRequests' = [upstreamRequests EXCEPT ![i].arrived = TRUE]
          /\ LET answer == upstreamRequests[i].answer[1] IN
             IF ~answer.ok
             THEN /\ oracleResult' = [kind |-> "threw", message |-> "HTTP error! status: 503"]
                  /\ UNCHANGED cache
             ELSE LET read == readBurnBlockHeight(answer.body) IN
                  /\ cache' = [cache EXCEPT
                                  ![BURN_BLOCK_CACHE_KEY["mainnet"]] = <<read.value>>]
                  /\ oracleResult' = [kind |-> "returned", value |-> read.value]
    /\ UNCHANGED <<oraclePc, oracleNetwork>>
    /\ UNCHANGED <<lifecycleVars, fetchVars, zonefileVars, serviceVars>>

\* A burn block is mined: the tip of the upstream's chain only grows.
chainGrows ==
    /\ height < BaseHeight + MaxGrowth
    /\ height' = height + 1
    /\ UNCHANGED <<nameRow, nsRow, cache, pending, reply>>
    /\ UNCHANGED <<fetchVars, zonefileVars, oracleVars, serviceVars>>

OracleRaceNext ==
    \/ concurrentCall
    \/ upstreamServes
    \/ concurrentCallResumes
    \/ chainGrows
    \/ CacheExpire

OracleRaceSpec == OracleInit /\ [][OracleRaceNext]_vars

(***************************************************************************)
(* cache-middleware.js and the server: the onRequest hooks setupCaching    *)
(* registers, the routes behind them, and /health with db.js.  pending     *)
(* holds the request being served and the next hook it runs.               *)
(***************************************************************************)
staticRoutes == <<"/namespaces", "/namespaces/:namespace">>

dynamicRoutes ==
    <<"/names", "/names/valid", "/names/expired", "/names/revoked",
      "/names/namespace/:namespace">>

\* addCacheHeaders(maxAge): the hook it returns.
addCacheHeaders(maxAge) == [hook |-> "addCacheHeaders", maxAge |-> maxAge]

\* etagCaching(): the hook it returns.
etagCaching == [hook |-> "etagCaching"]

\* The onRequest hooks of the fastify instance after setupCaching(fastify),
\* in the order they were added: one addHook per element of each route list,
\* none of them bound to the route.
setupCaching ==
    [i \in 1..Len(staticRoutes) |-> addCacheHeaders(1800)]
    \o [i \in 1..Len(dynamicRoutes) |-> addCacheHeaders(60)]
    \o <<etagCaching>>

\* `W/"${Date.now().toString(36)}"` at the one clock reading modelled.
ETags == {"W/\"lx2k9f3a\""}

\* The response status codes of a route handler behind createNetworkHandler.
HandlerCodes == {200, 404, 500}

\* What the database probe of checkPoolHealth can come to.
ProbeOutcomes == {"ok", "connect-error", "query-error"}

\* What checkPoolHealth returns: db.js defines it twice, once returning an
\* object with a healthy property and once returning a boolean.
checkPoolHealth(definition, probe) ==
    IF definition = "object"
    THEN [t |-> "object", healthy |-> (probe = "ok")]
    ELSE [t |-> "boolean", value |-> (probe = "ok")]

\* if (isHealthy): every object is truthy.
isTruthy(value) == value.t = "object" \/ (value.t = "boolean" /\ value.value)

\* A request arrives and a fresh reply is built for it.
receiveRequest ==
    /\ pending = <<>>
    /\ \E requestUrl \in Urls, ifNoneMatch \in {<<>>} \cup {<<e>> : e \in ETags} :
          pending' = <<[url |-> requestUrl, ifNoneMatch |-> ifNoneMatch, hook |-> 1]>>
    /\ reply' = NoReply
    /\ responseHeaders' = NoHeaders
    /\ UNCHANGED <<nameRow, nsRow, height, cache, namespaceStats, poolHealth>>
    /\ UNCHANGED <<fetchVars, zonefileVars, oracleVars>>

\* The next onRequest hook runs: addCacheHeaders sets Cache-Control and
\* calls done(); etagCaching answers 304 when the cached ETag is the one in
\* if-none-match, and otherwise wraps reply.send and calls done().
runOnRequestHook ==
    /\ pending # <<>>
    /\ pending[1].hook <= Len(setupCaching)
    /\ LET request == pending[1]
           hook == setupCaching[request.hook]
           cachedETag == cache[etagCacheKey(request.url)]
       IN  IF hook.hook = "addCacheHeaders"
           THEN /\ responseHeaders' =
                       [responseHeaders EXCEPT
                           !.CacheControl =
                               <<"public, max-age=" \o ToString(hook.maxAge)>>]
                /\ pending' = <<[request EXCEPT !.hook = @ + 1]>>
                /\ UNCHANGED reply
           ELSE IF cachedETag # <<>> /\ request.ifNoneMatch = cachedETag
           THEN /\ Send(request.url, [code |-> 304, body |-> [error |-> "none"]], <<>>)
                /\ pending' = <<>>
                /\ UNCHANGED responseHeaders
           ELSE /\ pending' = <<[request EXCEPT !.hook = @ + 1]>>
                /\ UNCHANGED <<reply, responseHeaders>>
    /\ UNCHANGED <<nameRow, nsRow, height, cache, namespaceStats, poolHealth>>
    /\ UNCHANGED <<fetchVars, zonefileVars, oracleVars>>

\* reply.send as etagCaching replaced it: a new ETag is cached and set as a
\* header, then the response goes out.
sendWithETag(requestUrl, response) ==
    \E etag \in ETags :
        /\ cache' = [cache EXCEPT ![etagCacheKey(requestUrl)] = <<etag>>]
        /\ responseHeaders' = [responseHeaders EXCEPT !.ETag = <<etag>>]
        /\ Send(requestUrl, response, <<>>)

\* The handler of a route other than /health answers.
routeHandler ==
    /\ pending # <<>>
    /\ pending[1].hook > Len(setupCaching)
    /\ pending[1].url # "/health"
    /\ \E code \in HandlerCodes :
          sendWithETag(pending[1].url, [code |-> code, body |-> [error |-> "none"]])
    /\ pending' = <<>>
    /\ UNCHANGED <<nameRow, nsRow, height, namespaceStats, poolHealth>>
    /\ UNCHANGED <<fetchVars, zonefileVars, oracleVars>>

\* GET /health: checkPoolHealth probes the database and the handler answers
\* on the truthiness of what it returned.
health ==
    /\ pending # <<>>
    /\ pending[1].hook > Len(setupCaching)
    /\ pending[1].url = "/health"
    /\ \E definition \in {"object", "boolean"}, probe \in ProbeOutcomes :
          LET isHealthy == checkPoolHealth(definition, probe) IN
          /\ poolHealth' = <<[probe |-> probe, returned |-> isHealthy]>>
          /\ IF isTruthy(isHealthy)
             THEN sendWithETag("/health",
                               [code |-> 200, body |-> [status |-> "healthy"]])
             ELSE sendWithETag("/health",
                               [code |-> 503,
                                body |-> [status |-> "unhealthy",
                                          message |-> "Database connection issue"]])
    /\ pending' = <<>>
    /\ UNCHANGED <<nameRow, nsRow, height, namespaceStats>>
    /\ UNCHANGED <<fetchVars, zonefileVars, oracleVars>>

ServerInit ==
    /\ LifecycleIdle
    /\ cache = EmptyCache
    /\ FetchIdle
    /\ ZonefileIdle
    /\ OracleIdle
    /\ ServiceIdle

ServerNext ==
    \/ receiveRequest
    \/ runOnRequestHook
    \/ routeHandler
    \/ health
    \/ CacheExpire

ServerSpec == ServerInit /\ [][ServerNext]_vars

(***************************************************************************)
(* The lifecycle rules as the specification words them (section 4.2), used *)
(* to state the claims.                                                    *)
(***************************************************************************)
Launched(ns) == Truthy(ns.launched_at)
Unmanaged(ns) == ns.namespace_manager \in {NullText, "none"}
Imported(row) == Truthy(row.imported_at)

EffectiveRenewalHeight(row, ns) ==
    IF row.renewal_height = 0 /\ Imported(row)
    THEN ns.launched_at + ns.lifetime ELSE row.renewal_height

StatusBucket(R, H) ==
    IF H > R + 5000 THEN "expired"
    ELSE IF R < H /\ H <= R + 5000 THEN "grace-period"
    ELSE IF R - 4320 < H /\ H <= R THEN "expiring-soon"
    ELSE "active"

\* Rules 1, 3, 4, 5 and 6 for a name in a launched namespace.
LifecycleStatus(row, ns, H) ==
    IF row.revoked THEN "revoked"
    ELSE IF ~Unmanaged(ns) THEN "active"
    ELSE IF ns.lifetime = 0 THEN "active"
    ELSE IF EffectiveRenewalHeight(row, ns) = 0 THEN "active"
    ELSE StatusBucket(EffectiveRenewalHeight(row, ns), H)

Resolvable == {"active", "expiring-soon", "grace-period"}

Sent(handler) == reply.handler = handler /\ reply.code = 200

\* The height the status of the last response was classified at.
StatusHeight ==
    IF reply.handler = "getNameOwner" THEN reply.at[2]
    ELSE reply.body.current_burn_block

\* The last response carries a status computed by getNameRenewal, by
\* getNameStatus (through getNameOwner) or by getTokenOwner.
StatusSent ==
    \/ Sent("getNameRenewal")
    \/ Sent("getNameOwner")
    \/ Sent("getTokenOwner")

\* A non-revoked name in a launched, unmanaged namespace with lifetime > 0.
ExpiringName ==
    /\ ~nameRow.revoked
    /\ Launched(nsRow)
    /\ Unmanaged(nsRow)
    /\ nsRow.lifetime > 0

(***************************************************************************)
(* C1: for a non-revoked name in a launched, unmanaged namespace with      *)
(* lifetime > 0 and effective renewal height R > 0, the status that        *)
(* getNameRenewal and getNameStatus report at height H is the bucket of H  *)
(* against R: expired iff H > R+5000, grace-period iff R < H <= R+5000,    *)
(* expiring-soon iff R-4320 < H <= R, active otherwise.                    *)
(***************************************************************************)
C1_StatusIsBucketOfEffectiveRenewal ==
    LET R == EffectiveRenewalHeight(nameRow, nsRow) IN
    (ExpiringName /\ R > 0) =>
        /\ Sent("getNameRenewal") =>
              reply.body.status = StatusBucket(R, reply.body.current_burn_block)
        /\ Sent("getNameOwner") =>
              reply.body.status = StatusBucket(R, reply.at[2])

(***************************************************************************)
(* C2 as stated: with a fixed renewal height R the status is active at     *)
(* H = R-SOON-1, expiring-soon at every H from R-SOON through R,           *)
(* grace-period at every H from R+1 through R+GRACE, expired at            *)
(* H = R+GRACE+1.                                                          *)
(***************************************************************************)
C2_BoundaryTableAsStated ==
    LET R == nameRow.renewal_height IN
    (ExpiringName /\ R > 0 /\ StatusSent) =>
        LET H == StatusHeight
            status == reply.body.status
        IN  /\ H = R - 4320 - 1 => status = "active"
            /\ (R - 4320 <= H /\ H <= R) => status = "expiring-soon"
            /\ (R + 1 <= H /\ H <= R + 5000) => status = "grace-period"
            /\ H = R + 5000 + 1 => status = "expired"

(***************************************************************************)
(* C2 amended: with a fixed stored renewal height R > 0 the status is      *)
(* active at H = R-SOON-1 and at H = R-SOON, expiring-soon at every H from *)
(* R-SOON+1 through R, grace-period at every H from R+1 through R+GRACE,   *)
(* expired at H = R+GRACE+1.                                               *)
(***************************************************************************)
C2_BoundaryTable ==
    LET R == nameRow.renewal_height IN
    (ExpiringName /\ R > 0 /\ StatusSent) =>
        LET H == StatusHeight
            status == reply.body.status
        IN  /\ H = R - 4320 - 1 => status = "active"
            /\ H = R - 4320 => status = "active"
            /\ (R - 4320 + 1 <= H /\ H <= R) => status = "expiring-soon"
            /\ (R + 1 <= H /\ H <= R + 5000) => status = "grace-period"
            /\ H = R + 5000 + 1 => status = "expired"

\* getNameRenewal answered at H = R-SOON, and the answer is active.
C2_Witness ==
    /\ ExpiringName
    /\ nameRow.renewal_height > 0
    /\ Sent("getNameRenewal")
    /\ reply.body.current_burn_block = nameRow.renewal_height - 4320
    /\ reply.body.status = "active"

(***************************************************************************)
(* C3: for a revoked name, whatever its stored renewal_height and the      *)
(* current height, getNameRenewal reports status revoked with              *)
(* renewal_height 0 and needs_renewal false, getNameDetails reports status *)
(* revoked, and canResolve reports can_resolve = false.                    *)
(***************************************************************************)
C3_RevokedIsRevoked ==
    nameRow.revoked =>
        /\ Sent("getNameRenewal") =>
              /\ reply.body.status = "revoked"
              /\ reply.body.renewal_height = 0
              /\ reply.body.needs_renewal = FALSE
        /\ Sent("getNameDetails") => reply.body.status = "revoked"
        /\ (reply.handler = "canResolve" /\ reply.code \in {200, 400}) =>
              reply.body.can_resolve = FALSE

\* getNameRenewal answered for a revoked name of a managed namespace whose
\* stored renewal height lies more than the grace period in the past.
C3_Witness ==
    /\ nameRow.revoked
    /\ nameRow.renewal_height > 0
    /\ ~Unmanaged(nsRow)
    /\ Sent("getNameRenewal")
    /\ reply.body.current_burn_block > nameRow.renewal_height + 5000
    /\ reply.body.status = "revoked"

(***************************************************************************)
(* C4: for a non-revoked name in a managed namespace (namespace_manager    *)
(* neither null nor "none") getNameRenewal reports status active and       *)
(* needs_renewal = false, for every stored renewal_height and height.      *)
(***************************************************************************)
C4_ManagedIsActive ==
    (~nameRow.revoked /\ ~Unmanaged(nsRow) /\ Sent("getNameRenewal")) =>
        /\ reply.body.status = "active"
        /\ reply.body.needs_renewal = FALSE

\* getNameRenewal answered active for a managed name whose stored renewal
\* height lies more than the grace period in the past, lifetime > 0.
C4_Witness ==
    /\ ~nameRow.revoked
    /\ ~Unmanaged(nsRow)
    /\ nsRow.lifetime > 0
    /\ nameRow.renewal_height > 0
    /\ Sent("getNameRenewal")
    /\ reply.body.current_burn_block > nameRow.renewal_height + 5000
    /\ reply.body.status = "active"

C6_ImportedUsesLaunchPlusLifetime ==
    (ExpiringName /\ Imported(nameRow) /\ nameRow.renewal_height = 0) =>
        LET R == nsRow.launched_at + nsRow.lifetime IN
        /\ Sent("getNameRenewal") =>
              reply.body.status = StatusBucket(R, reply.body.current_burn_block)
        /\ Sent("canResolve") =>
              (reply.body.can_resolve <=> reply.body.current_burn_block <= R + 5000)

(***************************************************************************)
(* C7: for a non-revoked name in a launched namespace, canResolve reports  *)
(* can_resolve = true, and resolveName does not answer 404 "Name not       *)
(* found, expired or revoked", exactly when the lifecycle status at the    *)
(* current height is active, expiring-soon or grace-period.                *)
(***************************************************************************)
C7_ResolvableFollowsStatus ==
    (~nameRow.revoked /\ Launched(nsRow)) =>
        /\ Sent("canResolve") =>
              (reply.body.can_resolve <=>
                  LifecycleStatus(nameRow, nsRow, reply.body.current_burn_block)
                      \in Resolvable)
        /\ (reply.handler = "resolveName" /\ reply.code # 500) =>
              (reply.body # [error |-> "Name not found, expired or revoked"] <=>
                  LifecycleStatus(nameRow, nsRow, reply.at[1]) \in Resolvable)

(***************************************************************************)
(* C8: for the same name row, namespace row and height, getNameRenewal,    *)
(* getNameOwner and getTokenOwner report the same status.                  *)
(***************************************************************************)
C8_SameStatusOnEveryPath ==
    Launched(nsRow) =>
        /\ (Sent("getNameOwner")
                /\ reply.at[2] = reply.body.current_burn_block) =>
              reply.body.status =
                  getNameRenewalBody(nameRow, nsRow,
                                     reply.body.current_burn_block).status
        /\ Sent("getTokenOwner") =>
              reply.body.status =
                  getNameRenewalBody(nameRow, nsRow,
                                     reply.body.current_burn_block).status

(***************************************************************************)
(* The six URL checks as the specification words them (section 4.4), on    *)
(* the written URL.                                                        *)
(***************************************************************************)
AllowListedHosts ==
    {<<"bucket", "s3", "amazonaws", "com">>,
     <<"bucket", "s3-us-west-2", "amazonaws", "com">>}

\* Check k fails on the written URL u; a URL that does not parse has no
\* https scheme.  A "?" or "#" with nothing after it carries no query or
\* fragment.
UrlCheckFails(k, u) ==
    IF ~u.wellFormed THEN k = 1
    ELSE CASE k = 1 -> u.scheme \notin {"https", "HTTPS"}
           [] k = 2 -> u.path.ext \notin {".json", ".JSON"}
           [] k = 3 -> u.host \in {<<"localhost">>, <<"127", "0", "0", "1">>}
           [] k = 4 -> u.query \notin {<<>>, <<"">>} \/ u.fragment \notin {<<>>, <<"">>}
           [] k = 5 -> u.username # "" \/ u.password # ""
           [] k = 6 -> u.host \notin AllowListedHosts

FailsSomeCheck(u) == \E k \in 1..6 : UrlCheckFails(k, u)

FirstFailingCheck(u) ==
    CHOOSE k \in 1..6 :
        UrlCheckFails(k, u) /\ \A j \in 1..(k - 1) : ~UrlCheckFails(j, u)

RejectionReason(k) ==
    CASE k = 1 -> "External URL must be HTTPS"
      [] k = 2 -> "External file must end with .json"
      [] k = 3 -> "External URL domain is not safe"
      [] k = 4 -> "External URL must not have query or fragment"
      [] k = 5 -> "External URL must not contain user info"
      [] k = 6 -> "External URL must be an allowed S3 domain"

(***************************************************************************)
(* C9: called with a URL that is not cached, fetchExternalSubdomains       *)
(* rejects before issuing any HEAD or GET whenever the URL fails one of    *)
(* the six checks, with the reason of the first failing check in the       *)
(* order https, .json, loopback host, query or fragment, userinfo,         *)
(* allow-listed host.                                                      *)
(***************************************************************************)
C9_RejectsBeforeAnyRequest ==
    FailsSomeCheck(url) =>
        /\ netLog = <<>>
        /\ (fetchPc # "start"
                /\ outcome # [kind |-> "resolved", message |-> "cached"]) =>
              /\ fetchPc \in {"settled", "replied"}
              /\ outcome = [kind |-> "rejected",
                            message |-> RejectionReason(FirstFailingCheck(url))]

\* https://evil.com/x.json?x=1 was rejected for its query string.
C9_Witness ==
    /\ url = [wellFormed |-> TRUE, scheme |-> "https", username |-> "",
              password |-> "", host |-> <<"evil", "com">>,
              path |-> [stem |-> "/x", ext |-> ".json"],
              query |-> <<"x=1">>, fragment |-> <<>>]
    /\ fetchPc = "settled"
    /\ netLog = <<>>
    /\ outcome = [kind |-> "rejected",
                  message |-> "External URL must not have query or fragment"]

(***************************************************************************)
(* C10: in every call of fetchExternalSubdomains the HEAD precedes the     *)
(* GET, each is issued at most once, and the GET is issued only if the     *)
(* HEAD answered 2xx with a JSON content-type and, when a content-length   *)
(* is present, a value of at most 50 MiB.                                  *)
(***************************************************************************)
C10_HeadGatesGet ==
    /\ netLog \in {<<>>, <<"HEAD">>, <<"HEAD", "GET">>}
    /\ netLog = <<"HEAD", "GET">> =>
          /\ headResponse # <<>>
          /\ headResponse[1].ok
          /\ headResponse[1].content_type \in
                 {<<"application/json">>, <<"application/json; charset=utf-8">>}
          /\ \/ headResponse[1].content_length = <<>>
             \/ headResponse[1].content_length[1] <= 50 * 1024 * 1024

\* The GET went out after a HEAD that reported exactly 50 MiB.
C10_Witness ==
    /\ netLog = <<"HEAD", "GET">>
    /\ headResponse # <<>>
    /\ headResponse[1].content_length = <<50 * 1024 * 1024>>

(***************************************************************************)
(* The bytes the data handler holds on to.                                 *)
(***************************************************************************)
RECURSIVE SumOfLengths(_)
SumOfLengths(lengths) ==
    IF lengths = <<>> THEN 0 ELSE Head(lengths) + SumOfLengths(Tail(lengths))

TooLarge == [kind |-> "rejected", message |-> "External subdomain file too large"]

(***************************************************************************)
(* C11: while the GET body is streamed the retained bytes never exceed     *)
(* 50 MiB; once the cumulative size of the received chunks exceeds the     *)
(* cap the call has rejected as too large, whatever content-length the     *)
(* HEAD reported, and from then on the call does not resolve with data     *)
(* and does not write the cache.                                           *)
(***************************************************************************)
C11_StreamNeverExceedsCap ==
    /\ [](/\ SumOfLengths(chunks) <= 50 * 1024 * 1024
          /\ totalSize > 50 * 1024 * 1024 =>
                /\ fetchPc \in {"settled", "replied"}
                /\ outcome = TooLarge)
    /\ [][totalSize > 50 * 1024 * 1024 =>
             \/ /\ outcome' = outcome
                /\ cache'.external_subdomain_file \in
                       {cache.external_subdomain_file, <<>>}
             \/ /\ fetchPc' = "start"
                /\ totalSize' = 0
                /\ cache' = cache]_vars

\* A body of 50 MiB + 1 byte was cut off although the HEAD reported no
\* content-length.
C11_Witness ==
    /\ headResponse # <<>>
    /\ ~headResponse[1].networkError
    /\ headResponse[1].content_length = <<>>
    /\ chunks = <<50 * 1024 * 1024>>
    /\ totalSize = 50 * 1024 * 1024 + 1
    /\ outcome = TooLarge

(***************************************************************************)
(* C12: the GET is under the 5-second cancellation for its whole           *)
(* duration: once the GET is issued the call eventually settles, also      *)
(* when the server sends the response headers and then stalls the body     *)
(* below the size cap.                                                     *)
(***************************************************************************)
C12_GetAlwaysSettles ==
    (fetchPc \in {"get", "body"}) ~> (fetchPc \in {"settled", "replied"})

(***************************************************************************)
(* C14: every value in the cache under the external-file URL key was put   *)
(* there by a fetch whose URL passed the six checks, whose HEAD and GET    *)
(* succeeded within the size cap and whose body parsed and passed the      *)
(* schema (the call resolved with it); a fetch that rejects at any stage   *)
(* leaves the entry as it was, so a cache hit returns validated data.      *)
(***************************************************************************)
C14_CacheHoldsValidatedData ==
    [][/\ (/\ cache'.external_subdomain_file # cache.external_subdomain_file
           /\ cache'.external_subdomain_file # <<>>) =>
              /\ ~FailsSomeCheck(url)
              /\ netLog = <<"HEAD", "GET">>
              /\ headResponse # <<>>
              /\ headResponse[1].ok
              /\ totalSize <= 50 * 1024 * 1024
              /\ SumOfLengths(chunks) = totalSize
              /\ outcome.kind = "pending"
              /\ outcome' = [kind |-> "resolved", message |-> "data"]
              /\ cache'.external_subdomain_file = <<outcome'.message>>
       /\ (outcome.kind = "pending" /\ outcome'.kind = "rejected") =>
              cache' = cache
       /\ (outcome.kind = "pending"
              /\ outcome' = [kind |-> "resolved", message |-> "cached"]) =>
              /\ cache.external_subdomain_file = <<"data">>
              /\ cache' = cache
              /\ netLog' = <<>>]_vars

\* A later call was answered from the entry an earlier call had written.
C14_Witness ==
    /\ cache.external_subdomain_file = <<"data">>
    /\ outcome = [kind |-> "resolved", message |-> "cached"]
    /\ netLog = <<>>

(***************************************************************************)
(* The outcomes of a call that failed at the network level, and the        *)
(* messages that carry no detail of the failure.                           *)
(***************************************************************************)
NetworkLevelFailure ==
    /\ outcome.kind = "rejected"
    /\ \/ /\ netLog = <<"HEAD">>
          /\ headResponse = <<>>
       \/ outcome.message = "Error reading external subdomains file: ECONNRESET"

GenericErrorMessages ==
    {"Internal Server Error", "Request timed out", "Error processing subdomains"}

(***************************************************************************)
(* C20: when the retrieval of the external subdomain file fails at the     *)
(* network level (the HEAD request cannot connect, or the body stream      *)
(* raises an error) nothing is retried and getSubdomains answers with a    *)
(* generic 5xx whose message carries no low-level error text, not with     *)
(* a 4xx.                                                                  *)
(***************************************************************************)
C20_NetworkFailureIsGeneric5xx ==
    (fetchPc = "replied" /\ NetworkLevelFailure) =>
        /\ reply.handler = "getSubdomains"
        /\ reply.code >= 500
        /\ reply.body.error \in GenericErrorMessages
        /\ netLog \in {<<"HEAD">>, <<"HEAD", "GET">>}

(***************************************************************************)
(* Hex blobs and JSON documents as the claims about decodeZonefile speak   *)
(* of them.                                                                *)
(***************************************************************************)
JsonDocuments ==
    {[type |-> "object", n |-> 0]} \cup
    {[type |-> "number", n |-> RepUnit(k)] : k \in 1..MaxTextLen}

JsonText(d) ==
    IF d.type = "object" THEN <<"{", "}">>
    ELSE [i \in 1..(CHOOSE k \in 1..MaxTextLen : RepUnit(k) = d.n) |-> "1"]

EncodingsOf(text) ==
    {hexEncode(utf8Encode(text)), <<"0", "x">> \o hexEncode(utf8Encode(text))}

HexDigitChars ==
    {HexDigits[i] : i \in 1..16} \cup {toUpperCase(HexDigits[i]) : i \in 1..16}

WellFormedHex(blob) ==
    LET digits == IF Len(blob) >= 2 /\ blob[1] = "0" /\ blob[2] = "x"
                  THEN SubSeq(blob, 3, Len(blob)) ELSE blob
    IN  /\ Len(digits) % 2 = 0
        /\ \A i \in 1..Len(digits) : digits[i] \in HexDigitChars

RoundTrips(text) ==
    IF \E d \in JsonDocuments : JsonText(d) = text
    THEN decoded[1].result =
             [kind |-> "json", json |-> CHOOSE d \in JsonDocuments : JsonText(d) = text]
    ELSE decoded[1].result = [kind |-> "text", text |-> text]

(***************************************************************************)
(* C17 as stated: decoding the hex encoding of a JSON document's UTF-8     *)
(* text, with or without a leading "0x", yields that document, and         *)
(* decoding the hex encoding of any text that is not JSON yields that      *)
(* text verbatim.                                                          *)
(***************************************************************************)
C17_RoundTripAsStated ==
    decoded # <<>> =>
        \A text \in Texts : zonefileHex \in EncodingsOf(text) => RoundTrips(text)

(***************************************************************************)
(* C17: decodeZonefile round-trips every non-empty text: the hex encoding  *)
(* of a JSON document's UTF-8 text, with or without a leading "0x",        *)
(* decodes to that document, and the hex encoding of a non-empty text      *)
(* that is not JSON decodes to that text verbatim.  The empty blob         *)
(* decodes to null, and "0x" alone to the empty text.                      *)
(***************************************************************************)
C17_RoundTripOfNonEmptyText ==
    decoded # <<>> =>
        /\ \A text \in Texts \ {<<>>} :
              zonefileHex \in EncodingsOf(text) => RoundTrips(text)
        /\ zonefileHex = <<>> => decoded[1].result = [kind |-> "null"]
        /\ zonefileHex = <<"0", "x">> =>
              decoded[1].result = [kind |-> "text", text |-> <<>>]

\* "0x7b7d" decoded to the empty object, "c3a97d" to the text it encodes.
C17_Witness ==
    /\ decoded # <<>>
    /\ decoded[1].by = "zonefile-utils.js"
    /\ \/ /\ zonefileHex = <<"0", "x", "7", "b", "7", "d">>
          /\ decoded[1].result = [kind |-> "json", json |-> [type |-> "object", n |-> 0]]
       \/ /\ zonefileHex = <<"c", "3", "a", "9", "7", "d">>
          /\ decoded[1].result = [kind |-> "text", text |-> <<"e-acute", "}">>]

(***************************************************************************)
(* C18: decodeZonefile returns null whenever its input is not well-formed  *)
(* hex (a character that is not a hex digit, or an odd number of digits,   *)
(* after the optional "0x" prefix); it never returns text or a document    *)
(* decoded from a leading part of such an input.                           *)
(***************************************************************************)
C18_MalformedHexIsNull ==
    (decoded # <<>> /\ zonefileHex # NullString /\ ~WellFormedHex(zonefileHex)) =>
        decoded[1].result = [kind |-> "null"]

(***************************************************************************)
(* Zonefile documents as the claims about the validators speak of them.    *)
(***************************************************************************)
HasStringBaseFields(doc) ==
    /\ doc.t = "object"
    /\ \A name \in BaseFieldNames : name \in DOMAIN doc.props /\ doc.props[name] = Str

WellFormedLegacy(doc) ==
    /\ HasStringBaseFields(doc)
    /\ DOMAIN doc.props = BaseFieldNames \cup {"subdomains"}
    /\ doc.props["subdomains"].t = "array"
    /\ \A i \in 1..Len(doc.props["subdomains"].items) :
          doc.props["subdomains"].items[i] = LegacySubdomain

\* A well-formed Legacy document from which one of the 8 top-level fields,
\* or one of the 5 fields of a subdomain, was removed.
LegacyLessOneField(doc) ==
    \/ \E gone \in BaseFieldNames \cup {"subdomains"} :
          WellFormedLegacy(Obj((gone :> (IF gone = "subdomains" THEN Arr(<<>>) ELSE Str))
                                  @@ doc.props))
             /\ gone \notin DOMAIN doc.props
    \/ /\ HasStringBaseFields(doc)
       /\ DOMAIN doc.props = BaseFieldNames \cup {"subdomains"}
       /\ doc.props["subdomains"].t = "array"
       /\ Len(doc.props["subdomains"].items) = 1
       /\ \E gone \in DOMAIN LegacySubdomain.props :
             doc.props["subdomains"].items[1] =
                 Obj([name \in DOMAIN LegacySubdomain.props \ {gone} |->
                         LegacySubdomain.props[name]])

Verdicts == {verdict.utils, verdict.server} \ {<<>>}

(***************************************************************************)
(* C13: a subdomains map is accepted by the validation of an external      *)
(* file if and only if the same map is accepted as the inline subdomains   *)
(* of a Current zonefile (seven string base fields, no                     *)
(* externalSubdomainFile).                                                 *)
(***************************************************************************)
C13_ExternalSchemaEqualsInline ==
    (/\ document.t = "object"
     /\ HasStringBaseFields(document)
     /\ DOMAIN document.props = BaseFieldNames \cup {"subdomains"}
     /\ document.props["subdomains"].t = "object"
     /\ verdict.utils # <<>>
     /\ verdict.external # <<>>) =>
        verdict.external[1] = verdict.utils[1]

(***************************************************************************)
(* C15: each zonefile validator returns true for a well-formed Legacy      *)
(* document (the 8 top-level fields, subdomains an array whose elements    *)
(* carry name, numeric sequence, owner, signature and text) and false      *)
(* once any one required field is removed.                                 *)
(***************************************************************************)
C15_LegacyAcceptedByEachValidator ==
    document.t = "object" =>
        \A v \in Verdicts :
            /\ WellFormedLegacy(document) => v[1]
            /\ LegacyLessOneField(document) => ~v[1]

(***************************************************************************)
(* C16: each zonefile validator returns false for a document with seven    *)
(* string base fields in which both subdomains and externalSubdomainFile   *)
(* are present, and false for one in which neither is present.             *)
(***************************************************************************)
C16_ExactlyOneSubdomainSource ==
    (document.t = "object" /\ HasStringBaseFields(document)) =>
        \A v \in Verdicts :
            ("subdomains" \in DOMAIN document.props
                 <=> "externalSubdomainFile" \in DOMAIN document.props) => ~v[1]

(***************************************************************************)
(* The upstream answers from which no latest height can be had.            *)
(***************************************************************************)
NoParsableHeight(answer) ==
    \/ answer.networkError
    \/ ~answer.ok
    \/ answer.body.form # "result"
    \/ answer.body.burn_block_height.t # "number"

(***************************************************************************)
(* C19: getCurrentBurnBlockHeight issues no upstream request on a cache    *)
(* hit and exactly one on a miss; when the upstream answer is non-2xx or   *)
(* its payload carries no parsable latest height the call fails: it        *)
(* returns no value, issues no second request and leaves nothing in the    *)
(* cache.                                                                  *)
(***************************************************************************)
C19_OracleFailsOnBadAnswer ==
    /\ Len(upstreamRequests) <= 1
    /\ oraclePc = "awaiting" => Len(upstreamRequests) = 1
    /\ (oraclePc = "done" /\ upstreamRequests = <<>>) =>
          /\ oracleResult.kind = "returned"
          /\ oracleResult.value.t = "number"
    /\ (oraclePc = "done" /\ upstreamRequests # <<>>) =>
          LET answer == upstreamRequests[1].answer[1] IN
          IF NoParsableHeight(answer)
          THEN /\ oracleResult.kind = "threw"
               /\ cache[BURN_BLOCK_CACHE_KEY[oracleNetwork]] = <<>>
          ELSE oracleResult = [kind |-> "returned", value |-> answer.body.burn_block_height]

C22_ExactlyOnePatternClass ==
    Sent("getNameRarity") =>
        Cardinality({class \in {"is_numeric", "is_letters_only", "has_special_chars"} :
                        reply.body.metrics.type[class]}) = 1

\* C23: the classification sent is the band of the score sent with it.
C23_BandOfReturnedScore ==
    Sent("getNameRarity") =>
        LET score == reply.body.metrics.rarity_score.score
        IN  reply.body.metrics.rarity_score.classification =
                (IF score <= 2000 THEN "Ultra Rare"
                 ELSE IF score <= 4000 THEN "Rare"
                 ELSE IF score <= 6000 THEN "Uncommon"
                 ELSE IF score <= 8000 THEN "Common"
                 ELSE "Very Common")

\* C27: for one name row, one namespace row and one height, canNameBeRegistered
\* does not answer can_register with reason NAME_EXPIRED where canResolve
\* answers can_resolve.
C27_ResolvableNeverOffered ==
    (/\ Sent("canNameBeRegistered")
     /\ reply.body.can_register
     /\ reply.body.reason = "NAME_EXPIRED") =>
        ~canResolveResponse(nameRow, nsRow, reply.at[1]).body.can_resolve

\* C28: the status in a getNameOwner or getNameDetails response is the
\* classification of the renewal height at the current_burn_block of that
\* response, whatever the oracle returns at the handler's second read.
C28_StatusAtReportedHeight ==
    /\ (Sent("getNameOwner") /\ Len(reply.at) = 2) =>
           reply.body.status = getNameStatus(nameRow, reply.body.current_burn_block)
    /\ (Sent("getNameDetails") /\ Len(reply.at) = 2) =>
           reply.body.status = getNameStatus(nameRow, reply.body.current_burn_block)

\* The lists a response of one of the three list handlers stands beside:
\* what each of the three queries selects at the height of that response.
ListedAt(list, currentBurnBlock) == listRows(list, NamesTable, currentBurnBlock)

\* C24: at one current_burn_block and over the same records, every name is in
\* exactly one of the valid, expired and revoked lists, and the valid list
\* holds exactly the names that are neither expired nor revoked.
C24_ListsPartitionNames ==
    \A list \in {"valid", "expired", "revoked"} :
        Sent(listHandler(list)) =>
            LET H == reply.body.current_burn_block IN
            /\ reply.body.names = ListedAt(list, H)
            /\ Cardinality({l \in {"valid", "expired", "revoked"} :
                               ListedAt(l, H) # <<>>}) = 1
            /\ (ListedAt("valid", H) # <<>>) <=>
                   (ListedAt("expired", H) = <<>> /\ ListedAt("revoked", H) = <<>>)

\* The expired list was answered at the very block the name expires at.
C24_Witness ==
    /\ Sent("getExpiredNames")
    /\ reply.body.current_burn_block = nameRow.renewal_height
    /\ reply.body.names # <<>>

\* C26: a name that is not revoked, has a renewal height and lives in an
\* unmanaged namespace with a lifetime is listed by getExpiringNamesByAddress
\* for its owner at H exactly when getNameRenewal calls it expiring-soon at H.
C26_ExpiringListIsExpiringSoon ==
    (/\ Sent("getExpiringNamesByAddress")
     /\ ~nameRow.revoked
     /\ nameRow.renewal_height > 0
     /\ Unmanaged(nsRow)
     /\ nsRow.lifetime > 0) =>
        (reply.body.names # <<>>) <=>
            (getNameRenewalBody(nameRow, nsRow, reply.body.current_burn_block).status
                 = "expiring-soon")

\* C25: under every interleaving of concurrent getCurrentBurnBlockHeight
\* calls for mainnet, against an upstream whose height never decreases, the
\* height held in the cache never decreases.
C25_CachedHeightNeverDecreases ==
    [][(/\ cache.mainnet_burn_block_height # <<>>
        /\ cache'.mainnet_burn_block_height # <<>>) =>
           cache'.mainnet_burn_block_height[1].n >= cache.mainnet_burn_block_height[1].n]_vars

\* The Cache-Control header a response of the route at requestUrl is to carry.
CacheControlOf(requestUrl) ==
    IF \E i \in 1..Len(staticRoutes) : staticRoutes[i] = requestUrl
    THEN <<"public, max-age=1800">>
    ELSE IF \E i \in 1..Len(dynamicRoutes) : dynamicRoutes[i] = requestUrl
    THEN <<"public, max-age=60">>
    ELSE <<>>

\* C29: only the static routes answer with Cache-Control max-age=1800, only
\* the dynamic list routes with max-age=60, and every other route with no
\* Cache-Control header.
C29_CacheControlPerRoute ==
    (reply.handler \in Urls /\ reply.code # 0) =>
        responseHeaders.CacheControl = CacheControlOf(reply.handler)

\* C30: /health answers 503 unhealthy whenever the database probe of
\* checkPoolHealth failed, and 200 healthy only when it succeeded.
C30_HealthFollowsProbe ==
    (reply.handler = "/health" /\ reply.code \in {200, 503}) =>
        /\ poolHealth[1].probe # "ok" =>
               reply.code = 503 /\ reply.body.status = "unhealthy"
        /\ reply.code = 200 => poolHealth[1].probe = "ok"

====
